---- MODULE Spec2Model ----
(***************************************************************************)
(* Session loader, metadata cache and message pager of the history viewer  *)
(* (src-tauri/src/commands/session/load.rs, rename.rs, utils.rs), and the  *)
(* statistics of src-tauri/src/commands/stats.rs.                          *)
(*                                                                         *)
(* A session file is a sequence of lines; a line is a record of the fields *)
(* the decoders read, plus its length in bytes, so that byte offsets       *)
(* (file_size, last_byte_offset, seek) are computed and not assumed.       *)
(* Lines conform to the record schema of the data model or are undecodable *)
(* (json = FALSE); blank lines are not modelled.                           *)
(***************************************************************************)
EXTENDS Integers, Sequences, FiniteSets, TLC

VARIABLES
  files,       \* path -> [lines, nl, mtime]: the session files of the project
  now,         \* the wall clock, in seconds
  cache_file,  \* the bytes of <project>/.session_cache.json, as a token sequence
  out,         \* what the last load_project_sessions call returned and did
  menu,        \* the lines the external producer may append
  page,        \* what the last load_session_messages_paginated call returned
  req,         \* the pager call in flight (its mapping of the file)
  chain,       \* a client that follows next_offset from page to page
  counts,      \* the last get_session_message_count / load_session_messages results
  calls,       \* the concurrent load_project_sessions calls in flight
  stats,       \* what the last calls of the statistics operations returned
  userdata,    \* user metadata: memory, files on disk, writers
  probe,       \* the directories that exist and the last decode_project_path call
  pager,       \* a client that requests pages while has_more is true
  scan         \* a load_project_sessions call in its steps, with appends in between

vars ==
  <<files, now, cache_file, out, menu, page, req, chain,
    counts, calls, stats, userdata, probe, pager, scan>>

-----------------------------------------------------------------------------
(* Bounds *)

MaxLines == 3      \* lines per session file
MaxNow == 1        \* clock ticks
MaxTs == 2         \* distinct record timestamps
MaxLimit == 2      \* page size asked by a pager client
MaxOffset == 2     \* first offset asked by a pager client
LineBytes == 5     \* bytes of a record line without its newline
LongTitle == 3     \* characters of the longer of the two session titles
MaxWords == 3      \* hyphen-free words of a project path
MaxDirs == 2       \* directories made before a path is decoded

(* Program constants *)

CACHE_VERSION == 5
METADATA_PHASE_LINES == 100

Paths == {"a.jsonl"}
Stamps == 1..MaxTs
Titles == {0, 1, LongTitle}     \* 0: no title (reset)

\* Option<String> for timestamps and session ids: 0 is None.
\* Option<String> for summaries: a title prefix and a text; NoText is None.
NoText == [t |-> 0, x |-> 0]
UNKNOWN_SESSION == -1           \* "unknown-session"

\* Utc::now().to_rfc3339(): later than every recorded timestamp.
UtcNow(clock) == MaxTs + 1 + clock

-----------------------------------------------------------------------------
(* Lines of a session file *)

Rec(type, sid, ts, side, meta, text, tool) ==
  [json |-> TRUE, message_type |-> type, session_id |-> sid, timestamp |-> ts,
   is_sidechain |-> side, is_meta |-> meta, text |-> text, title |-> 0,
   tool |-> tool, bytes |-> LineBytes]

\* An undecodable line of n bytes.
Garbage(n) ==
  [json |-> FALSE, message_type |-> "", session_id |-> 0, timestamp |-> 0,
   is_sidechain |-> FALSE, is_meta |-> FALSE, text |-> 0, title |-> 0,
   tool |-> "none", bytes |-> n]

UserLines == {Rec("user", 1, ts, FALSE, FALSE, 1, "none") : ts \in Stamps}
SideLines == {Rec("user", 1, ts, TRUE, FALSE, 0, "none") : ts \in Stamps}
ToolLine == Rec("assistant", 1, 1, FALSE, FALSE, 0, "stderr")
SummaryLine == Rec("summary", 0, 0, FALSE, FALSE, 2, "none")
NoIdLine == Rec("user", 0, 0, FALSE, FALSE, 0, "none")
MetaLine == Rec("user", 1, 1, FALSE, TRUE, 0, "none")
ProgressLine == Rec("progress", 1, 1, FALSE, FALSE, 0, "none")
NoTsLine == Rec("user", 1, 0, FALSE, FALSE, 0, "none")
BadLine == Garbage(LineBytes)

LoaderMenu ==
  UserLines \cup SideLines
    \cup {ToolLine, SummaryLine, NoIdLine, MetaLine, ProgressLine, NoTsLine, BadLine}
PagerMenu ==
  {Rec("user", 1, 1, FALSE, FALSE, 1, "none"), Rec("user", 1, 1, TRUE, FALSE, 0, "none"),
   NoIdLine, SummaryLine, MetaLine}
CountMenu ==
  {Rec("user", 1, 1, FALSE, FALSE, 1, "none"), NoIdLine, MetaLine, ProgressLine, BadLine}
RaceMenu == {Rec("user", 1, 1, FALSE, FALSE, 1, "none"), NoIdLine}

ProjectMenu ==
  {Rec("user", 1, 1, FALSE, FALSE, 1, "none"), Rec("user", 1, 1, TRUE, FALSE, 0, "none"),
   SummaryLine, Rec("user", 1, 1, FALSE, FALSE, 0, "none")}
StableMenu == {Rec("user", 1, 1, FALSE, FALSE, 1, "none"), NoTsLine}
FilterMenu ==
  {Rec("user", 1, 1, FALSE, FALSE, 1, "none"), Rec("user", 1, 1, TRUE, FALSE, 0, "none")}
IdMenu ==
  {Rec("user", 0, 1, FALSE, FALSE, 1, "none"), Rec("user", 1, 1, FALSE, FALSE, 1, "none")}
RenameMenu == {Rec("user", 1, 1, FALSE, FALSE, 1, "none"), NoIdLine, BadLine}

TitleBytes(t) == IF t = 0 THEN 0 ELSE t + 3       \* "[" title "] "
LineLen(l) == l.bytes + TitleBytes(l.title)

EmptyFile == [lines |-> <<>>, nl |-> TRUE, mtime |-> 0]

RECURSIVE SumLen(_)
SumLen(ls) == IF ls = <<>> THEN 0 ELSE LineLen(Head(ls)) + 1 + SumLen(Tail(ls))

\* metadata().len(): every line is followed by a newline, except the last one
\* of a file that does not end with one.
get_file_size(f) ==
  SumLen(f.lines) - (IF f.lines # <<>> /\ ~f.nl THEN 1 ELSE 0)

get_modified_time(f) == f.mtime

\* Byte offset at which line i starts.
LineStart(f, i) == SumLen(SubSeq(f.lines, 1, i - 1))

\* BufReader::lines() after seek(off): the lines that start at or after off,
\* preceded by the rest of the line that off cuts, which does not decode.
RECURSIVE LinesFrom(_, _, _)
LinesFrom(f, off, i) ==
  IF i > Len(f.lines) THEN <<>>
  ELSE LET s == LineStart(f, i)
           e == s + LineLen(f.lines[i])
           rest == LinesFrom(f, off, i + 1)
       IN  IF off <= s THEN <<f.lines[i]>> \o rest
           ELSE IF off < e THEN <<Garbage(e - off)>> \o rest
           ELSE rest

-----------------------------------------------------------------------------
(* Validity of a record *)

SYSTEM_MESSAGE_TYPES == {"progress", "queue-operation", "file-history-snapshot", "system"}

is_system_message_type(message_type) == message_type \in SYSTEM_MESSAGE_TYPES

\* The data model's validity of a record (the reference the operations are
\* compared with).
IsValid(l) ==
  /\ l.json
  /\ l.message_type # "summary"
  /\ ~is_system_message_type(l.message_type)
  /\ ~l.is_meta
  /\ (l.session_id # 0 \/ l.timestamp # 0)

ValidLines(ls) == SelectSeq(ls, IsValid)
ValidCount(ls) == Len(ValidLines(ls))

-----------------------------------------------------------------------------
(* Session extractor: extract_session_metadata_internal *)

\* extract_user_text of message.content: the genuine user text, if any.  A
\* text that carries a "[title] " prefix is genuine; text 0 is no genuine text.
extract_user_text(l) ==
  IF l.text > 0 THEN [t |-> l.title, x |-> l.text] ELSE NoText

\* Structural detection of tool use and errors (metadata phase) and the
\* substring probes (counting phase) agree on the lines of this model.
HasToolUse(l) == l.tool # "none"
HasStderr(l) == l.tool = "stderr"

\* The running state of a scan, started fresh.
FreshScan ==
  [message_count |-> 0, sidechain_count |-> 0, first_timestamp |-> 0,
   last_timestamp |-> 0, actual_session_id |-> 0, session_summary |-> NoText,
   has_tool_use |-> FALSE, has_errors |-> FALSE, first_user_content |-> NoText,
   metadata_complete |-> FALSE, lines_processed |-> 0]

\* The running state of a scan resumed from an IncrementalParseState.
ResumedScan(state) ==
  [message_count |-> state.message_count, sidechain_count |-> state.sidechain_count,
   first_timestamp |-> state.first_timestamp, last_timestamp |-> state.last_timestamp,
   actual_session_id |-> state.session_id, session_summary |-> state.summary,
   has_tool_use |-> state.has_tool_use, has_errors |-> state.has_errors,
   first_user_content |-> state.first_user_content,
   metadata_complete |-> TRUE, lines_processed |-> 0]

\* Phase 1: full metadata extraction of one line.
MetadataPhase(a, l) ==
  IF ~l.json THEN a
  ELSE IF l.message_type = "summary"
    THEN IF a.session_summary = NoText
           THEN [a EXCEPT !.session_summary = [t |-> 0, x |-> l.text]]
           ELSE a
  ELSE IF is_system_message_type(l.message_type) THEN a
  ELSE IF l.session_id = 0 /\ l.timestamp = 0 THEN a
  ELSE IF l.is_meta THEN a
  ELSE
    LET first_ts == IF l.timestamp # 0 /\ a.first_timestamp = 0
                      THEN l.timestamp ELSE a.first_timestamp
        sid == IF a.actual_session_id = 0 THEN l.session_id ELSE a.actual_session_id
        fuc == IF a.first_user_content = NoText /\ l.message_type = "user"
                 THEN extract_user_text(l) ELSE a.first_user_content
    IN  [a EXCEPT
          !.sidechain_count = IF l.is_sidechain THEN @ + 1 ELSE @,
          !.message_count = @ + 1,
          !.first_timestamp = first_ts,
          !.last_timestamp = IF l.timestamp # 0 THEN l.timestamp ELSE @,
          !.actual_session_id = sid,
          !.has_tool_use = @ \/ HasToolUse(l),
          !.has_errors = @ \/ HasStderr(l),
          !.first_user_content = fuc,
          !.metadata_complete =
             sid # 0 /\ first_ts # 0 /\ (fuc # NoText \/ a.session_summary # NoText)]

\* Phase 2: fast counting of one line.
CountingPhase(a, l) ==
  IF ~l.json THEN a
  ELSE IF l.message_type = "summary"
    THEN IF a.session_summary = NoText
           THEN [a EXCEPT !.session_summary = [t |-> 0, x |-> l.text]]
           ELSE a
  ELSE IF is_system_message_type(l.message_type) THEN a
  ELSE IF l.session_id = 0 /\ l.timestamp = 0 THEN a
  ELSE IF l.is_meta THEN a
  ELSE [a EXCEPT
          !.sidechain_count = IF l.is_sidechain THEN @ + 1 ELSE @,
          !.message_count = @ + 1,
          !.last_timestamp = IF l.timestamp # 0 THEN l.timestamp ELSE @,
          !.has_tool_use = @ \/ HasToolUse(l),
          !.has_errors = @ \/ HasStderr(l)]

ScanLine(a, l) ==
  LET b == [a EXCEPT !.lines_processed = @ + 1]
  IN  IF ~b.metadata_complete /\ b.lines_processed <= METADATA_PHASE_LINES
        THEN MetadataPhase(b, l)
        ELSE CountingPhase(b, l)

RECURSIVE ScanLines(_, _)
ScanLines(a, ls) ==
  IF ls = <<>> THEN a ELSE ScanLines(ScanLine(a, Head(ls)), Tail(ls))

NoResult == [some |-> FALSE]
NoSession == [some |-> FALSE]

\* state is NoResult for a full parse, else the IncrementalParseState.
\* Returns NoResult or the SessionExtractionResult.
extract_session_metadata_internal(path, f, state, clock) ==
  LET start_offset == IF state.some THEN state.start_offset ELSE 0
      a0 == IF state.some THEN ResumedScan(state) ELSE FreshScan
      a == ScanLines(a0, LinesFrom(f, start_offset, 1))
      final_summary == IF a.session_summary # NoText
                         THEN a.session_summary ELSE a.first_user_content
  IN  IF a.message_count = 0 THEN NoResult
      ELSE [some |-> TRUE,
            session |->
              [some |-> TRUE,
               session_id |-> path,
               actual_session_id |->
                 IF a.actual_session_id = 0 THEN UNKNOWN_SESSION ELSE a.actual_session_id,
               file_path |-> path,
               message_count |-> a.message_count,
               first_message_time |->
                 IF a.first_timestamp = 0 THEN UtcNow(clock) ELSE a.first_timestamp,
               last_message_time |->
                 IF a.last_timestamp = 0 THEN UtcNow(clock) ELSE a.last_timestamp,
               last_modified |-> f.mtime,
               has_tool_use |-> a.has_tool_use,
               has_errors |-> a.has_errors,
               summary |-> final_summary],
            sidechain_count |-> a.sidechain_count,
            final_byte_offset |-> get_file_size(f),
            has_tool_use |-> a.has_tool_use,
            has_errors |-> a.has_errors]

extract_session_metadata_from_file(path, f, clock) ==
  extract_session_metadata_internal(path, f, NoResult, clock)

extract_session_metadata_incremental(path, f, state, clock) ==
  extract_session_metadata_internal(path, f, state, clock)


-----------------------------------------------------------------------------
(* Metadata cache: load_cache, save_cache *)

\* SessionMetadataCache::default()
DefaultCache == [version |-> 0, entries |-> <<>>]

RECURSIVE SetToSeq(_)
SetToSeq(S) ==
  IF S = {} THEN <<>>
  ELSE LET x == CHOOSE y \in S : TRUE IN <<x>> \o SetToSeq(S \ {x})

\* serde_json::to_string of one entry: the entry's own fields, then the
\* session object unless the session is null.
EntryTokens(path, e) ==
  <<[tok |-> "entry", path |-> path, modified_time |-> e.modified_time,
     file_size |-> e.file_size, last_byte_offset |-> e.last_byte_offset,
     sidechain_count |-> e.sidechain_count, has_tool_use |-> e.has_tool_use,
     has_errors |-> e.has_errors, null |-> ~e.session.some]>>
    \o (IF e.session.some THEN <<[tok |-> "session", session |-> e.session]>> ELSE <<>>)

RECURSIVE EntriesTokens(_, _)
EntriesTokens(entries, paths) ==
  IF paths = <<>> THEN <<>>
  ELSE EntryTokens(Head(paths), entries[Head(paths)]) \o EntriesTokens(entries, Tail(paths))

\* serde_json::to_string(cache): the content save_cache writes.
Serialize(cache) ==
  <<[tok |-> "head", version |-> cache.version]>>
    \o EntriesTokens(cache.entries, SetToSeq(DOMAIN cache.entries))
    \o <<[tok |-> "end"]>>

ParseError == [ok |-> FALSE]

Extend(entries, path, e) ==
  [p \in DOMAIN entries \cup {path} |-> IF p = path THEN e ELSE entries[p]]

EntryOf(tk, session) ==
  [modified_time |-> tk.modified_time, file_size |-> tk.file_size,
   last_byte_offset |-> tk.last_byte_offset, session |-> session,
   sidechain_count |-> tk.sidechain_count, has_tool_use |-> tk.has_tool_use,
   has_errors |-> tk.has_errors]

\* serde_json::from_str of the entries: fails on a missing session object, a
\* missing closing brace and on trailing characters.
RECURSIVE ParseEntries(_, _)
ParseEntries(ts, acc) ==
  IF ts = <<>> THEN ParseError
  ELSE LET h == Head(ts) IN
    IF h.tok = "end"
      THEN IF Tail(ts) = <<>> THEN [ok |-> TRUE, entries |-> acc] ELSE ParseError
    ELSE IF h.tok = "entry"
      THEN IF h.null
             THEN ParseEntries(Tail(ts), Extend(acc, h.path, EntryOf(h, NoSession)))
           ELSE IF Len(ts) >= 2 /\ ts[2].tok = "session"
             THEN ParseEntries(SubSeq(ts, 3, Len(ts)),
                               Extend(acc, h.path, EntryOf(h, ts[2].session)))
           ELSE ParseError
    ELSE ParseError

\* bytes = <<>>: the cache file is missing (or empty).
load_cache(bytes) ==
  IF bytes = <<>> \/ Head(bytes).tok # "head" THEN DefaultCache
  ELSE LET r == ParseEntries(Tail(bytes), <<>>) IN
    IF r.ok /\ Head(bytes).version = CACHE_VERSION
      THEN [version |-> Head(bytes).version, entries |-> r.entries]
      ELSE DefaultCache

-----------------------------------------------------------------------------
(* Session loader: load_project_sessions *)

\* A categorization that never trusts the cache.
FileParseStrategyUncached(cache, path, f) == [kind |-> "FullParse", path |-> path]

\* Step 3: how to handle one file, from the cache and the file's size and mtime.
FileParseStrategy(cache, path, f) ==
  LET current_size == get_file_size(f)
      current_mtime == get_modified_time(f)
      full == [kind |-> "FullParse", path |-> path]
  IN  IF path \notin DOMAIN cache.entries THEN full
      ELSE LET cached == cache.entries[path] IN
        IF /\ cached.modified_time = current_mtime
           /\ cached.file_size = current_size
           /\ cached.session.some
          THEN [kind |-> "UseCached", path |-> path, session |-> cached.session,
                sidechain_count |-> cached.sidechain_count]
        ELSE IF current_size > cached.file_size /\ cached.session.some
          THEN [kind |-> "Incremental", path |-> path,
                state |->
                  [some |-> TRUE,
                   start_offset |-> cached.last_byte_offset,
                   message_count |-> cached.session.message_count,
                   sidechain_count |-> cached.sidechain_count,
                   last_timestamp |-> cached.session.last_message_time,
                   has_tool_use |-> cached.has_tool_use,
                   has_errors |-> cached.has_errors,
                   session_id |-> cached.session.actual_session_id,
                   first_timestamp |-> cached.session.first_message_time,
                   summary |-> cached.session.summary,
                   first_user_content |-> cached.session.summary]]
        ELSE full

\* Step 4: the extraction one strategy asks for.
ParseResult(strategy, f, clock) ==
  IF strategy.kind = "UseCached" THEN NoResult
  ELSE IF strategy.kind = "Incremental"
    THEN extract_session_metadata_incremental(strategy.path, f, strategy.state, clock)
  ELSE extract_session_metadata_from_file(strategy.path, f, clock)

\* A step 5 that does not look at exclude_sidechain.
ContributionUnfiltered(session, sidechain_count, exclude) == <<session>>

\* session.message_count.saturating_sub(sidechain_count)
SaturatingSub(a, b) == IF a >= b THEN a - b ELSE 0

\* Step 5, the session one file contributes to the list: <<>> or <<session>>.
Contribution(session, sidechain_count, exclude) ==
  IF ~exclude THEN <<session>>
  ELSE LET n == SaturatingSub(session.message_count, sidechain_count) IN
    IF n = 0 THEN <<>> ELSE <<[session EXCEPT !.message_count = n]>>

\* Step 5, the cache entry written for a parsed file.
CachedSessionMetadata(result, f) ==
  [modified_time |-> get_modified_time(f),
   file_size |-> get_file_size(f),
   last_byte_offset |-> IF result.some THEN result.final_byte_offset ELSE 0,
   session |-> IF result.some THEN result.session ELSE NoSession,
   sidechain_count |-> IF result.some THEN result.sidechain_count ELSE 0,
   has_tool_use |-> IF result.some THEN result.has_tool_use ELSE FALSE,
   has_errors |-> IF result.some THEN result.has_errors ELSE FALSE]

\* Step 5 over the strategies, in enumeration order.  fs is the project's files
\* as the post-join probes of mtime and size see them.
RECURSIVE ProcessResults(_, _, _, _, _)
ProcessResults(strategies, results, fs, exclude, acc) ==
  IF strategies = <<>> THEN acc
  ELSE LET st == Head(strategies)
           r == Head(results)
           next ==
             IF st.kind = "UseCached"
               THEN [acc EXCEPT !.sessions =
                       @ \o Contribution(st.session, st.sidechain_count, exclude)]
               ELSE [cache |-> [acc.cache EXCEPT !.entries =
                                  Extend(@, st.path, CachedSessionMetadata(r, fs[st.path]))],
                     cache_updated |-> TRUE,
                     sessions |-> acc.sessions \o
                       (IF r.some THEN Contribution(r.session, r.sidechain_count, exclude)
                                  ELSE <<>>)]
       IN  ProcessResults(Tail(strategies), Tail(results), fs, exclude, next)

\* Step 6: sessions.sort_by(|a, b| b.last_message_time.cmp(&a.last_message_time)),
\* a stable sort.
RECURSIVE InsertSession(_, _)
InsertSession(sorted, x) ==
  IF sorted = <<>> THEN <<x>>
  ELSE IF Head(sorted).last_message_time < x.last_message_time THEN <<x>> \o sorted
  ELSE <<Head(sorted)>> \o InsertSession(Tail(sorted), x)

RECURSIVE SortSessions(_, _)
SortSessions(sessions, sorted) ==
  IF sessions = <<>> THEN sorted
  ELSE SortSessions(Tail(sessions), InsertSession(sorted, Head(sessions)))

\* Step 8: the summary the map holds for an id: that of the last session of the
\* list with this id and a summary.
SummaryMap(sessions, id) ==
  LET having == {i \in 1..Len(sessions) :
                   sessions[i].actual_session_id = id /\ sessions[i].summary # NoText}
  IN  IF having = {} THEN NoText
      ELSE sessions[CHOOSE i \in having : \A j \in having : j <= i].summary

\* A propagation that moves the summary instead of copying it: the session
\* without one receives it, the session it came from is left without.
PropagateSummariesTaking(sessions) ==
  [i \in 1..Len(sessions) |->
     IF sessions[i].summary = NoText
       THEN [sessions[i] EXCEPT !.summary = SummaryMap(sessions, sessions[i].actual_session_id)]
       ELSE IF \E j \in 1..Len(sessions) :
                 /\ sessions[j].actual_session_id = sessions[i].actual_session_id
                 /\ sessions[j].summary = NoText
              THEN [sessions[i] EXCEPT !.summary = NoText]
              ELSE sessions[i]]

PropagateSummaries(sessions) ==
  [i \in 1..Len(sessions) |->
     IF sessions[i].summary = NoText
       THEN [sessions[i] EXCEPT !.summary = SummaryMap(sessions, sessions[i].actual_session_id)]
       ELSE sessions[i]]

Strategies(cache, fs, order) ==
  [i \in 1..Len(order) |-> FileParseStrategy(cache, order[i], fs[order[i]])]

ParseResults(strategies, fs, clock) ==
  [i \in 1..Len(strategies) |-> ParseResult(strategies[i], fs[strategies[i].path], clock)]

\* The whole call on the files fs with the cache file holding bytes; order is
\* the order in which WalkDir enumerates the files.
LoadOutcome(fs, bytes, clock, exclude, order) ==
  LET cache == load_cache(bytes)
      strategies == Strategies(cache, fs, order)
      results == ParseResults(strategies, fs, clock)
      done == ProcessResults(strategies, results, fs, exclude,
                [cache |-> cache, cache_updated |-> FALSE, sessions |-> <<>>])
      sessions == PropagateSummaries(SortSessions(done.sessions, <<>>))
  IN  [sessions |-> sessions,
       strategy |-> [p \in DOMAIN fs |->
                       strategies[CHOOSE i \in 1..Len(order) : order[i] = p].kind],
       cache_updated |-> done.cache_updated,
       cache_file |->
         IF done.cache_updated
           THEN Serialize([done.cache EXCEPT !.version = CACHE_VERSION])
           ELSE bytes]


-----------------------------------------------------------------------------
(* State and operations *)

NoOut ==
  [valid |-> FALSE, sessions |-> <<>>, exclude |-> FALSE, strategy |-> <<>>,
   seen |-> <<>>, clock |-> 0, idle |-> FALSE, rewritten |-> {}, order |-> <<>>,
   repeat |-> FALSE]
NoPage ==
  [valid |-> FALSE, offset |-> 0, limit |-> 0, exclude |-> FALSE, messages |-> <<>>,
   total_count |-> 0, has_more |-> FALSE, next_offset |-> 0, nlines |-> 0]
NoReq == [active |-> FALSE, offset |-> 0, limit |-> 0, exclude |-> FALSE, len |-> 0]
NoChain == [active |-> FALSE, offset |-> 0, limit |-> 0, exclude |-> FALSE,
            got |-> <<>>, sums |-> TRUE, clean |-> FALSE, done |-> FALSE]
NoCounts == [count |-> -1, total |-> -1, loaded |-> -1]
NoCall == [pc |-> "idle", bytes |-> <<>>, save |-> FALSE]
NoStats == [listed |-> FALSE, items |-> <<>>, summary |-> [some |-> FALSE], session |-> <<>>]
NoPager ==
  [active |-> FALSE, path |-> "", offset |-> 0, limit |-> 0, exclude |-> FALSE,
   requested |-> FALSE, has_more |-> FALSE, advanced |-> FALSE, turn |-> 0,
   done |-> FALSE]
NoScan ==
  [pc |-> "idle", exclude |-> FALSE, bytes |-> <<>>, strategies |-> <<>>,
   start |-> <<>>, probed |-> <<>>, results |-> <<>>, done |-> FALSE,
   sessions |-> <<>>, quiet |-> FALSE, raced |-> FALSE, final |-> <<>>]
Calls == {1, 2}

\* The directories that exist, the mkdir calls made, and the last decode call.
NoProbe ==
  [dirs |-> {}, made |-> 0, done |-> FALSE, marker |-> FALSE, target |-> <<>>,
   result |-> [raw |-> TRUE, path |-> <<>>]]

\* The commands that run concurrently; each is one call.
Writers == 1..2

\* What a caller may pass as the update of the one session, of the one
\* project, or as the settings.  0 is the empty update (is_empty()).
Updates == {0, 1, 2}

NoInode == 0

\* MetadataState.metadata before any load or update: Mutex::new(None).
NoMetadata == [some |-> FALSE]

\* UserMetadata::new(): no session entry, no project entry, default settings.
UserMetadata_new == [some |-> TRUE, sessions |-> 0, projects |-> 0, settings |-> 0]

get_or_insert_with(cached) == IF cached.some THEN cached ELSE UserMetadata_new

MetadataKinds == {"session", "project", "settings"}

\* serde_json::to_string_pretty of the metadata, as the two blocks that
\* write_all may hand to the file one after the other.
to_string_pretty(m) ==
  <<[part |-> "head", sessions |-> m.sessions, projects |-> m.projects],
    [part |-> "tail", settings |-> m.settings]>>

\* serde_json::to_string_pretty of a PresetData.  created_at / updated_at are
\* left out: they do not bear on how the file is replaced.
SerializePreset(p) ==
  <<[part |-> "head", name |-> p.settings], [part |-> "tail", settings |-> p.settings]>>

ContentOf(wr) ==
  IF wr.kind = "preset" THEN SerializePreset(wr.snap) ELSE to_string_pretty(wr.snap)

\* The bytes a file has where nothing was written below a later write.
Hole == [part |-> "hole"]

\* A write of one block at a file offset.
WriteAt(content, off, blk) ==
  IF off < Len(content)
    THEN [content EXCEPT ![off + 1] = blk]
    ELSE content \o [i \in 1..(off - Len(content)) |-> Hole] \o <<blk>>

NoWriter ==
  [pc |-> "idle", kind |-> "none", snap |-> NoMetadata, fd |-> NoInode,
   off |-> 0, err |-> FALSE]

\* memory: MetadataState.metadata.  path, tmp, preset: the inode that
\* user-data.json, user-data.json.tmp and presets/<id>.json name, or NoInode.
\* inodes: the content of the file each writer created.
NoMeta ==
  [memory |-> NoMetadata, path |-> NoInode, tmp |-> NoInode, preset |-> NoInode,
   inodes |-> [i \in Writers |-> <<>>], w |-> [i \in Writers |-> NoWriter]]

\* The orders in which WalkDir may enumerate a set of files.
Orders(S) ==
  {o \in [1..Cardinality(S) -> S] : \A i, j \in 1..Cardinality(S) : o[i] = o[j] => i = j}

InitCommon ==
  /\ files = [p \in Paths |-> EmptyFile]
  /\ now = 0
  /\ cache_file = <<>>
  /\ out = NoOut
  /\ page = NoPage
  /\ req = NoReq
  /\ chain = NoChain
  /\ counts = NoCounts
  /\ calls = [i \in Calls |-> NoCall]
  /\ scan = NoScan
  /\ pager = NoPager
  /\ probe = NoProbe
  /\ userdata = NoMeta
  /\ stats = NoStats

Init == InitCommon /\ menu = LoaderMenu

\* The external producer appends one complete line, newline included.  After a
\* file that does not end with a newline the bytes join its last line, and the
\* joined line does not decode.
AppendedLines(f, l) ==
  IF f.lines = <<>> \/ f.nl THEN Append(f.lines, l)
  ELSE LET n == Len(f.lines) IN
    [f.lines EXCEPT ![n] = Garbage(LineLen(f.lines[n]) + LineLen(l))]

\* The bytes a session file may grow to.
MaxBytes == MaxLines * (LineBytes + 1) + TitleBytes(LongTitle)

ProducerAppend(p, l) ==
  /\ Len(files[p].lines) < MaxLines
  /\ get_file_size(files[p]) + LineLen(l) + 1 <= MaxBytes
  /\ files' = [files EXCEPT ![p] =
                 [lines |-> AppendedLines(files[p], l), nl |-> TRUE, mtime |-> now]]
  /\ out' = [out EXCEPT !.idle = FALSE]
  /\ chain' = [chain EXCEPT !.clean = FALSE]
  /\ counts' = NoCounts
  /\ stats' = NoStats
  /\ UNCHANGED <<now, cache_file, menu, page, req, calls, userdata, probe, pager, scan>>

Tick ==
  /\ now < MaxNow
  /\ now' = now + 1
  /\ UNCHANGED <<files, cache_file, out, menu, page, req, chain, counts, calls, stats, userdata, probe, pager, scan>>

\* The cache file is disposable: somebody removes it.
DeleteCache ==
  /\ cache_file # <<>>
  /\ cache_file' = <<>>
  /\ out' = [out EXCEPT !.idle = FALSE]
  /\ UNCHANGED <<files, now, menu, page, req, chain, counts, calls, stats, userdata, probe, pager, scan>>

load_project_sessions(exclude) ==
  \E order \in Orders(DOMAIN files) :
    LET o == LoadOutcome(files, cache_file, now, exclude, order) IN
      /\ out' = [valid |-> TRUE, sessions |-> o.sessions, exclude |-> exclude,
                 strategy |-> o.strategy,
                 seen |-> [p \in DOMAIN files |-> Len(files[p].lines)],
                 clock |-> now, idle |-> TRUE, rewritten |-> {}, order |-> order,
                 repeat |-> out.valid /\ out.idle /\ out.exclude = exclude
                              /\ out.order = order]
      /\ cache_file' = o.cache_file
      /\ UNCHANGED <<files, now, menu, page, req, chain, counts, calls, stats, userdata, probe, pager, scan>>

Next ==
  \/ \E p \in Paths, l \in menu : ProducerAppend(p, l)
  \/ Tick
  \/ DeleteCache
  \/ \E exclude \in BOOLEAN : load_project_sessions(exclude)

Spec == Init /\ [][Next]_vars


\* find_first_user_message_index: the first line that decodes, has type user,
\* is not meta and carries message text; 0 when there is none.
find_first_user_message_index(lines) ==
  LET user == {i \in 1..Len(lines) :
                 /\ lines[i].json
                 /\ lines[i].message_type = "user"
                 /\ ~lines[i].is_meta
                 /\ lines[i].text > 0}
  IN  IF user = {} THEN 0 ELSE CHOOSE i \in user : \A j \in user : i <= j

\* strip_title_prefix, then "[title] " before the message unless the title is
\* empty (0).
Retitled(l, new_title) == [l EXCEPT !.title = new_title]

\* rename_session_native: the first user message gets the title prefix, the
\* lines are written to a temporary file with a newline between them and none
\* after the last, and the temporary file replaces the session file.
rename_session_native(p, new_title) ==
  LET lines == files[p].lines
      user_message_index == find_first_user_message_index(lines)
  IN  /\ lines # <<>>
      /\ user_message_index # 0
      /\ files' = [files EXCEPT ![p] =
                     [lines |-> [lines EXCEPT ![user_message_index] =
                                   Retitled(lines[user_message_index], new_title)],
                      nl |-> FALSE, mtime |-> now]]
      /\ out' = [out EXCEPT !.idle = FALSE, !.rewritten = @ \cup {p}]
      /\ chain' = [chain EXCEPT !.clean = FALSE]
      /\ counts' = NoCounts
      /\ UNCHANGED <<now, cache_file, menu, page, req, calls, stats, userdata, probe, pager, scan>>

InitRename == InitCommon /\ menu = RenameMenu

NextRename ==
  \/ \E p \in Paths, l \in menu : ProducerAppend(p, l)
  \/ Tick
  \/ \E exclude \in BOOLEAN : load_project_sessions(exclude)
  \/ \E p \in Paths, t \in Titles : rename_session_native(p, t)

SpecRename == InitRename /\ [][NextRename]_vars


-----------------------------------------------------------------------------
(* Message pager and counter *)

Min(a, b) == IF a <= b THEN a ELSE b

\* The elements of a finite set of numbers, ascending.
RECURSIVE Ascending(_)
Ascending(S) ==
  IF S = {} THEN <<>>
  ELSE LET m == CHOOSE x \in S : \A y \in S : x <= y IN <<m>> \o Ascending(S \ {m})

\* Mmap::map(&file): the bytes the file holds when it is mapped, here its
\* first n complete lines.
Mmap(f, n) == SubSeq(f.lines, 1, n)

\* find_line_ranges: the indices of the non-empty lines of the mapped bytes.
find_line_ranges(data) == Ascending({i \in 1..Len(data) : LineLen(data[i]) > 0})

\* find_line_starts with the start >= end test of load_session_messages.
find_line_starts(data) == Ascending({i \in 1..Len(data) : LineLen(data[i]) > 0})

\* A classifier that rejects sidechain lines whether or not the request
\* excludes them.
classify_line_always_excluding(line, exclude_sidechain) ==
  /\ line.json
  /\ line.message_type # "summary"
  /\ ~is_system_message_type(line.message_type)
  /\ ~line.is_meta
  /\ ~line.is_sidechain

\* classify_line_fast: summary, system types, meta and (on request) sidechain
\* lines are rejected; sessionId and timestamp are not looked at.
classify_line_fast(line, exclude_sidechain) ==
  /\ line.json
  /\ line.message_type # "summary"
  /\ ~is_system_message_type(line.message_type)
  /\ ~line.is_meta
  /\ ~(exclude_sidechain /\ line.is_sidechain)

\* parse_line_simd: TRUE when the line yields a message.
parse_line_simd(line, include_summary) ==
  /\ line.json
  /\ ~line.is_meta
  /\ IF line.message_type = "summary"
       THEN include_summary /\ line.text # 0
       ELSE line.session_id # 0 \/ line.timestamp # 0

\* load_session_messages_paginated on the mapped bytes.  A message is named
\* by the line it was parsed from.
load_session_messages_paginated(data, offset, limit, exclude) ==
  LET line_ranges == find_line_ranges(data)
      valid_indices ==
        SelectSeq(line_ranges, LAMBDA i : classify_line_fast(data[i], exclude))
      total_count == Len(valid_indices)
      already_loaded == offset
      remaining_messages == SaturatingSub(total_count, already_loaded)
      messages_to_load == Min(limit, remaining_messages)
      start_idx == IF remaining_messages = 0 THEN 0
                   ELSE total_count - already_loaded - messages_to_load
      end_idx == IF remaining_messages = 0 THEN 0 ELSE total_count - already_loaded
      target_indices == SubSeq(valid_indices, start_idx + 1, end_idx)
      messages == SelectSeq(target_indices, LAMBDA i : parse_line_simd(data[i], FALSE))
  IN  IF total_count = 0
        THEN [messages |-> <<>>, total_count |-> 0, has_more |-> FALSE, next_offset |-> 0]
        ELSE [messages |-> messages, total_count |-> total_count,
              has_more |-> start_idx > 0, next_offset |-> offset + Len(messages)]

\* get_session_message_count on the mapped bytes.
get_session_message_count(data, exclude) ==
  Cardinality({i \in 1..Len(find_line_ranges(data)) :
                 classify_line_fast(data[find_line_ranges(data)[i]], exclude)})

\* load_session_messages on the mapped bytes: the lines that yield a message
\* of a non-system type.
load_session_messages(data) ==
  SelectSeq(find_line_starts(data),
            LAMBDA i : parse_line_simd(data[i], FALSE)
                         /\ ~is_system_message_type(data[i].message_type))

\* A call of the pager maps the file ...
PagerOpen(p, offset, limit, exclude) ==
  /\ ~req.active
  /\ req' = [active |-> TRUE, offset |-> offset, limit |-> limit, exclude |-> exclude,
             len |-> Len(files[p].lines)]
  /\ page' = NoPage
  /\ UNCHANGED <<files, now, cache_file, out, menu, chain, counts, calls, stats, userdata, probe, pager, scan>>

\* ... and returns the page of the bytes it mapped, whatever the producer has
\* appended in between.
PagerReturn(p) ==
  /\ req.active
  /\ LET r == load_session_messages_paginated(Mmap(files[p], req.len),
                                              req.offset, req.limit, req.exclude)
     IN  page' = [valid |-> TRUE, offset |-> req.offset, limit |-> req.limit,
                  exclude |-> req.exclude, messages |-> r.messages,
                  total_count |-> r.total_count, has_more |-> r.has_more,
                  next_offset |-> r.next_offset, nlines |-> req.len]
  /\ req' = NoReq
  /\ UNCHANGED <<files, now, cache_file, out, menu, chain, counts, calls, stats, userdata, probe, pager, scan>>

InitPage == InitCommon /\ menu = PagerMenu

NextPage ==
  \/ \E p \in Paths, l \in menu : ProducerAppend(p, l)
  \/ \E p \in Paths, offset \in 0..MaxOffset, limit \in 0..MaxLimit, exclude \in BOOLEAN :
       PagerOpen(p, offset, limit, exclude)
  \/ \E p \in Paths : PagerReturn(p)

SpecPage == InitPage /\ [][NextPage]_vars

\* A client pages through a file from the newest message: it asks for
\* offset 0 and then for the next_offset of each page, and puts each page
\* before the ones it has got.
ChainStart(limit, exclude) ==
  /\ chain' = [active |-> TRUE, offset |-> 0, limit |-> limit, exclude |-> exclude,
               got |-> <<>>, sums |-> TRUE, clean |-> TRUE, done |-> FALSE]
  /\ UNCHANGED <<files, now, cache_file, out, menu, page, req, counts, calls, stats, userdata, probe, pager, scan>>

ChainNext(p) ==
  /\ chain.active /\ ~chain.done
  /\ LET r == load_session_messages_paginated(Mmap(files[p], Len(files[p].lines)),
                                              chain.offset, chain.limit, chain.exclude)
     IN  chain' = [chain EXCEPT
                     !.got = r.messages \o @,
                     !.sums = @ /\ r.next_offset = chain.offset + Len(r.messages),
                     !.offset = r.next_offset,
                     !.done = (r.messages = <<>> \/ ~r.has_more)]
  /\ UNCHANGED <<files, now, cache_file, out, menu, page, req, counts, calls, stats, userdata, probe, pager, scan>>

NextChain ==
  \/ \E p \in Paths, l \in menu : ProducerAppend(p, l)
  \/ \E limit \in 1..MaxLimit, exclude \in BOOLEAN : ChainStart(limit, exclude)
  \/ \E p \in Paths : ChainNext(p)

SpecChain == InitPage /\ [][NextChain]_vars

\* A client that pages through one file as it is: it asks for offset 0 and
\* then for the next_offset of each response, as long as the response says
\* has_more.  turn is the parity of the number of its requests.
PagingStart(p, limit, exclude) ==
  /\ ~pager.active
  /\ pager' = [NoPager EXCEPT !.active = TRUE, !.path = p, !.limit = limit,
                              !.exclude = exclude]
  /\ UNCHANGED <<files, now, cache_file, out, menu, page, req, chain, counts, calls,
                 stats, userdata, probe, scan>>

PagingNext ==
  /\ pager.active /\ ~pager.done
  /\ LET p == pager.path
         r == load_session_messages_paginated(Mmap(files[p], Len(files[p].lines)),
                                              pager.offset, pager.limit, pager.exclude)
     IN  pager' = [pager EXCEPT
                     !.offset = r.next_offset,
                     !.requested = TRUE,
                     !.has_more = r.has_more,
                     !.advanced = r.next_offset > pager.offset,
                     !.turn = 1 - @,
                     !.done = ~r.has_more]
  /\ UNCHANGED <<files, now, cache_file, out, menu, page, req, chain, counts, calls,
                 stats, userdata, probe, scan>>

\* The file is written before the client starts to page.
AppendBeforePaging(p, l) == ~pager.active /\ ProducerAppend(p, l)

NextPaging ==
  \/ \E p \in Paths, l \in menu : AppendBeforePaging(p, l)
  \/ \E p \in Paths, limit \in 1..MaxLimit, exclude \in BOOLEAN : PagingStart(p, limit, exclude)
  \/ PagingNext

\* The client keeps requesting: a request that is due is made.
SpecPaging == InitPage /\ [][NextPaging]_vars /\ WF_vars(PagingNext)

\* The three counting operations, each on the file as it is.
CountMessages(p) ==
  /\ counts' = [counts EXCEPT
                  !.count = get_session_message_count(Mmap(files[p], Len(files[p].lines)), FALSE)]
  /\ UNCHANGED <<files, now, cache_file, out, menu, page, req, chain, calls, stats, userdata, probe, pager, scan>>

CountPage(p, offset, limit) ==
  /\ counts' = [counts EXCEPT
                  !.total = load_session_messages_paginated(
                              Mmap(files[p], Len(files[p].lines)), offset, limit, FALSE).total_count]
  /\ UNCHANGED <<files, now, cache_file, out, menu, page, req, chain, calls, stats, userdata, probe, pager, scan>>

CountLoaded(p) ==
  /\ counts' = [counts EXCEPT
                  !.loaded = Len(load_session_messages(Mmap(files[p], Len(files[p].lines))))]
  /\ UNCHANGED <<files, now, cache_file, out, menu, page, req, chain, calls, stats, userdata, probe, pager, scan>>

InitCount == InitCommon /\ menu = CountMenu

NextCount ==
  \/ \E p \in Paths, l \in menu : ProducerAppend(p, l)
  \/ load_project_sessions(FALSE)
  \/ \E p \in Paths : CountMessages(p)
  \/ \E p \in Paths, offset \in 0..MaxOffset, limit \in 0..MaxLimit : CountPage(p, offset, limit)
  \/ \E p \in Paths : CountLoaded(p)

SpecCount == InitCount /\ [][NextCount]_vars

-----------------------------------------------------------------------------
(* Two concurrent calls of the loader *)

\* write_all at position 0 of a file that holds old: the new bytes replace
\* the first ones, the rest of old stays.
WriteAll(old, bytes) ==
  IF Len(old) <= Len(bytes) THEN bytes
  ELSE bytes \o SubSeq(old, Len(bytes) + 1, Len(old))

\* Steps 1 to 8 of a call: the cache is read, the files are handled, the
\* result is ready; the cache is to be saved when an entry was updated.
CallLoad(i, exclude) ==
  /\ calls[i].pc = "idle"
  /\ \E order \in Orders(DOMAIN files) :
       LET o == LoadOutcome(files, cache_file, now, exclude, order) IN
         calls' = [calls EXCEPT ![i] =
                     [pc |-> IF o.cache_updated THEN "save" ELSE "done",
                      bytes |-> o.cache_file,
                      save |-> o.cache_updated]]
  /\ UNCHANGED <<files, now, cache_file, out, menu, page, req, chain, counts, stats, userdata, probe, pager, scan>>

\* save_cache, File::create: the cache file is opened and truncated.
CallCreate(i) ==
  /\ calls[i].pc = "save"
  /\ calls' = [calls EXCEPT ![i].pc = "write"]
  /\ cache_file' = <<>>
  /\ UNCHANGED <<files, now, out, menu, page, req, chain, counts, stats, userdata, probe, pager, scan>>

\* save_cache, write_all: the call's bytes are written from position 0.
CallWrite(i) ==
  /\ calls[i].pc = "write"
  /\ calls' = [calls EXCEPT ![i].pc = "done"]
  /\ cache_file' = WriteAll(cache_file, calls[i].bytes)
  /\ UNCHANGED <<files, now, out, menu, page, req, chain, counts, stats, userdata, probe, pager, scan>>

InitRace == InitCommon /\ menu = RaceMenu

NextRace ==
  \/ \E p \in Paths, l \in menu : ProducerAppend(p, l)
  \/ Tick
  \/ \E i \in Calls, exclude \in BOOLEAN : CallLoad(i, exclude)
  \/ \E i \in Calls : CallCreate(i)
  \/ \E i \in Calls : CallWrite(i)

SpecRace == InitRace /\ [][NextRace]_vars


-----------------------------------------------------------------------------
(* A load in its steps, while the producer appends *)

\* What the extraction of one file returns when the file is f_probe at its
\* metadata() call and f_map when it is mapped: size and mtime are the
\* probe's, the lines scanned are the mapping's.
StagedResult(strategy, f_probe, f_map, clock) ==
  LET r == ParseResult(strategy, f_map, clock)
  IN IF r.some
       THEN [r EXCEPT !.final_byte_offset = get_file_size(f_probe),
                      !.session.last_modified = f_probe.mtime]
       ELSE r

\* Steps 1 to 3: the cache is read, each file is categorized from its size
\* and mtime.
ScanCategorize(exclude) ==
  /\ scan.pc = "idle"
  /\ \E order \in Orders(DOMAIN files) :
       LET strategies == Strategies(load_cache(cache_file), files, order) IN
         scan' = [NoScan EXCEPT
                    !.pc = IF \A i \in 1..Len(strategies) : strategies[i].kind = "UseCached"
                             THEN "join" ELSE "probe",
                    !.exclude = exclude, !.bytes = cache_file,
                    !.strategies = strategies, !.start = files,
                    !.raced = scan.raced]
  /\ UNCHANGED <<files, now, cache_file, out, menu, page, req, chain, counts, calls,
                 stats, userdata, probe, pager>>

\* Step 4, the worker's file_path.metadata(): size and mtime of the file.
ScanProbe ==
  /\ scan.pc = "probe"
  /\ scan' = [scan EXCEPT !.pc = "map", !.probed = files]
  /\ UNCHANGED <<files, now, cache_file, out, menu, page, req, chain, counts, calls,
                 stats, userdata, probe, pager>>

\* Step 4, the worker maps the file and scans the mapping.
ScanMap ==
  /\ scan.pc = "map"
  /\ scan' = [scan EXCEPT
                !.pc = "join",
                !.results = [i \in 1..Len(scan.strategies) |->
                               LET p == scan.strategies[i].path IN
                                 StagedResult(scan.strategies[i], scan.probed[p],
                                              files[p], now)]]
  /\ UNCHANGED <<files, now, cache_file, out, menu, page, req, chain, counts, calls,
                 stats, userdata, probe, pager>>

\* Steps 5 to 8: size and mtime are probed again for the cache entries, the
\* list is sorted, the cache is saved, the call returns.
ScanFinish ==
  /\ scan.pc = "join"
  /\ LET results == IF scan.results = <<>>
                      THEN [i \in 1..Len(scan.strategies) |-> NoResult]
                      ELSE scan.results
         done == ProcessResults(scan.strategies, results, files, scan.exclude,
                   [cache |-> load_cache(scan.bytes), cache_updated |-> FALSE,
                    sessions |-> <<>>])
     IN /\ scan' = [scan EXCEPT
                      !.pc = "idle", !.done = TRUE,
                      !.sessions = PropagateSummaries(SortSessions(done.sessions, <<>>)),
                      !.quiet = (files = scan.start),
                      !.raced = @ \/ files # scan.start,
                      !.final = files]
        /\ cache_file' = IF done.cache_updated
                           THEN Serialize([done.cache EXCEPT !.version = CACHE_VERSION])
                           ELSE cache_file
  /\ UNCHANGED <<files, now, out, menu, page, req, chain, counts, calls,
                 stats, userdata, probe, pager>>

NextAppendRace ==
  \/ \E p \in Paths, l \in menu : ProducerAppend(p, l)
  \/ Tick
  \/ \E exclude \in BOOLEAN : ScanCategorize(exclude)
  \/ ScanProbe
  \/ ScanMap
  \/ ScanFinish

SpecAppendRace == InitRace /\ [][NextAppendRace]_vars


-----------------------------------------------------------------------------
(* A project of two session files *)

ProjectPaths == {"a.jsonl", "b.jsonl"}

RECURSIVE TotalLines(_, _)
TotalLines(fs, S) ==
  IF S = {} THEN 0
  ELSE LET p == CHOOSE q \in S : TRUE IN Len(fs[p].lines) + TotalLines(fs, S \ {p})

InitProject ==
  /\ files = [p \in ProjectPaths |-> EmptyFile]
  /\ now = 0
  /\ cache_file = <<>>
  /\ out = NoOut
  /\ page = NoPage
  /\ req = NoReq
  /\ chain = NoChain
  /\ counts = NoCounts
  /\ calls = [i \in Calls |-> NoCall]
  /\ scan = NoScan
  /\ pager = NoPager
  /\ probe = NoProbe
  /\ userdata = NoMeta
  /\ stats = NoStats
  /\ menu = ProjectMenu

\* The producer appends to one of the files of the project.
ProjectAppend(p, l) ==
  /\ TotalLines(files, DOMAIN files) < MaxLines
  /\ ProducerAppend(p, l)

\* Every record of ProjectMenu and FilterMenu carries a timestamp: the clock
\* plays no part.
NextProject ==
  \/ \E p \in ProjectPaths, l \in menu : ProjectAppend(p, l)
  \/ \E exclude \in BOOLEAN : load_project_sessions(exclude)

SpecProject == InitProject /\ [][NextProject]_vars

\* The same project, fed with fewer kinds of lines.
InitStable ==
  /\ files = [p \in ProjectPaths |-> EmptyFile]
  /\ now = 0
  /\ cache_file = <<>>
  /\ out = NoOut
  /\ page = NoPage
  /\ req = NoReq
  /\ chain = NoChain
  /\ counts = NoCounts
  /\ calls = [i \in Calls |-> NoCall]
  /\ scan = NoScan
  /\ pager = NoPager
  /\ probe = NoProbe
  /\ userdata = NoMeta
  /\ stats = NoStats
  /\ menu = StableMenu

\* A smaller project: one line less in all.
SmallAppend(p, l) ==
  /\ TotalLines(files, DOMAIN files) < MaxLines - 1
  /\ ProducerAppend(p, l)

NextStable ==
  \/ \E p \in ProjectPaths, l \in menu : SmallAppend(p, l)
  \/ Tick
  \/ \E exclude \in BOOLEAN : load_project_sessions(exclude)

SpecStable == InitStable /\ [][NextStable]_vars

\* One session file of records with and without a sessionId, all timestamped.
InitIds == InitCommon /\ menu = IdMenu

NextIds ==
  \/ \E p \in Paths, l \in menu : ProducerAppend(p, l)
  \/ \E exclude \in BOOLEAN : load_project_sessions(exclude)

SpecIds == InitIds /\ [][NextIds]_vars

\* Two session files of main-thread and sidechain records.
InitFilter ==
  /\ files = [p \in ProjectPaths |-> EmptyFile]
  /\ now = 0
  /\ cache_file = <<>>
  /\ out = NoOut
  /\ page = NoPage
  /\ req = NoReq
  /\ chain = NoChain
  /\ counts = NoCounts
  /\ calls = [i \in Calls |-> NoCall]
  /\ scan = NoScan
  /\ pager = NoPager
  /\ probe = NoProbe
  /\ userdata = NoMeta
  /\ stats = NoStats
  /\ menu = FilterMenu

SpecFilter == InitFilter /\ [][NextProject]_vars


-----------------------------------------------------------------------------
(* Statistics: stats.rs *)

NoTokens == -1                  \* Option<u32>::None

\* A usage object: every field a number of tokens or NoTokens.
NoUsage == [some |-> FALSE]
TokenUsage(i, o, cc, cr) ==
  [some |-> TRUE, input_tokens |-> i, output_tokens |-> o,
   cache_creation_input_tokens |-> cc, cache_read_input_tokens |-> cr]

\* A record line with the fields the statistics read besides those of Rec:
\* whether its timestamp is an RFC 3339 string, message.usage, the usage of
\* an object content, toolUseResult.usage, toolUseResult.totalTokens, the
\* names of the tool_use items of an array content, the name of toolUse.
StatsRec(type, sid, ts, ts_ok, usage, content_usage, result_usage, total_tokens, content_tools, tool_use) ==
  Rec(type, sid, ts, FALSE, FALSE, 0, "none")
    @@ [ts_ok |-> ts_ok, usage |-> usage, content_usage |-> content_usage,
        result_usage |-> result_usage, total_tokens |-> total_tokens,
        content_tools |-> content_tools, tool_use |-> tool_use]

Plain(type, sid, ts, usage) ==
  StatsRec(type, sid, ts, TRUE, usage, NoUsage, NoUsage, NoTokens, <<>>, "none")

\* ClaudeMessage::try_from(RawLogEntry): TRUE when the line converts.
try_from(l) ==
  /\ l.json
  /\ l.message_type # "summary"
  /\ (l.session_id # 0 \/ l.timestamp # 0)

\* usage.<field>.unwrap_or(0)
unwrap_or_0(v) == IF v = NoTokens THEN 0 ELSE v

\* The fields of u that are present, written over those of base.
Overlay(base, u) ==
  [some |-> TRUE,
   input_tokens |-> IF u.input_tokens # NoTokens THEN u.input_tokens ELSE base.input_tokens,
   output_tokens |->
     IF u.output_tokens # NoTokens THEN u.output_tokens ELSE base.output_tokens,
   cache_creation_input_tokens |->
     IF u.cache_creation_input_tokens # NoTokens
       THEN u.cache_creation_input_tokens ELSE base.cache_creation_input_tokens,
   cache_read_input_tokens |->
     IF u.cache_read_input_tokens # NoTokens
       THEN u.cache_read_input_tokens ELSE base.cache_read_input_tokens]

extract_token_usage(message) ==
  IF message.usage.some THEN message.usage
  ELSE
    LET empty == TokenUsage(NoTokens, NoTokens, NoTokens, NoTokens)
        content == IF message.content_usage.some
                     THEN Overlay(empty, message.content_usage) ELSE empty
        result == IF message.result_usage.some
                    THEN Overlay(content, message.result_usage) ELSE content
    IN  IF /\ message.total_tokens # NoTokens
           /\ result.input_tokens = NoTokens
           /\ result.output_tokens = NoTokens
          THEN IF message.message_type = "assistant"
                 THEN [result EXCEPT !.output_tokens = message.total_tokens]
                 ELSE [result EXCEPT !.input_tokens = message.total_tokens]
          ELSE result

\* The four counts of a usage, and their sum.
Tokens(usage) ==
  [input |-> unwrap_or_0(usage.input_tokens),
   output |-> unwrap_or_0(usage.output_tokens),
   cache_creation |-> unwrap_or_0(usage.cache_creation_input_tokens),
   cache_read |-> unwrap_or_0(usage.cache_read_input_tokens)]

Total(t) == t.input + t.output + t.cache_creation + t.cache_read

NoDistribution == [input |-> 0, output |-> 0, cache_creation |-> 0, cache_read |-> 0]

\* The sums are u32 for a session and u64 for a project; the counts of the
\* records considered here stay far below either width.
AddTokens(a, b) ==
  [input |-> a.input + b.input,
   output |-> a.output + b.output,
   cache_creation |-> a.cache_creation + b.cache_creation,
   cache_read |-> a.cache_read + b.cache_read]

ToolNames == {"Read", "Bash"}

Occurrences(names, name) == Cardinality({i \in 1..Len(names) : names[i] = name})

\* The tool usage one message adds: the tool_use items of the content array
\* of an assistant message, and the tool_use field.
ToolUsageOf(message_type, content_tools, tool_use) ==
  [name \in ToolNames |->
     (IF message_type = "assistant" THEN Occurrences(content_tools, name) ELSE 0)
       + (IF tool_use = name THEN 1 ELSE 0)]

AddUsage(a, b) == [name \in ToolNames |-> a[name] + b[name]]

NoToolUsage == [name \in ToolNames |-> 0]

RECURSIVE SumTokens(_)
SumTokens(ts) ==
  IF ts = <<>> THEN NoDistribution ELSE AddTokens(Head(ts), SumTokens(Tail(ts)))

RECURSIVE SumUsage(_)
SumUsage(us) ==
  IF us = <<>> THEN NoToolUsage ELSE AddUsage(Head(us), SumUsage(Tail(us)))

\* The token counts and the tool usage of the messages of a file; the
\* tool_use field of a message ClaudeMessage::try_from yields is the line's
\* toolUse.
TokensOf(messages) ==
  SumTokens([i \in 1..Len(messages) |-> Tokens(extract_token_usage(messages[i]))])

ToolsOf(messages) ==
  SumUsage([i \in 1..Len(messages) |->
              ToolUsageOf(messages[i].message_type, messages[i].content_tools,
                          messages[i].tool_use)])

\* extract_session_token_stats_sync: the statistics of one session file, or
\* NoResult for a file without message.
extract_session_token_stats_sync(f) ==
  LET messages == SelectSeq(f.lines, try_from)
      tokens == TokensOf(messages)
      tools == ToolsOf(messages)
  IN  IF messages = <<>> THEN NoResult
      ELSE [some |-> TRUE,
            total_input_tokens |-> tokens.input,
            total_output_tokens |-> tokens.output,
            total_cache_creation_tokens |-> tokens.cache_creation,
            total_cache_read_tokens |-> tokens.cache_read,
            total_tokens |-> Total(tokens),
            message_count |-> Len(messages),
            most_used_tools |-> tools]

\* parse_line_simd: the tool_use field of the message a line yields, taken
\* from the content array when the line has no toolUse.
extracted_tool_use(l) ==
  IF l.tool_use # "none" THEN l.tool_use
  ELSE IF l.content_tools # <<>> THEN l.content_tools[1]
  ELSE "none"

\* get_session_token_stats: the statistics of the messages load_session_messages
\* returns for the file; [some |-> FALSE] is the Err for a file without message.
session_token_stats(f) ==
  LET data == Mmap(f, Len(f.lines))
      loaded == load_session_messages(data)
      messages == [k \in 1..Len(loaded) |-> data[loaded[k]]]
      tokens == TokensOf(messages)
      tools == SumUsage([i \in 1..Len(messages) |->
                           ToolUsageOf(messages[i].message_type, messages[i].content_tools,
                                       extracted_tool_use(messages[i]))])
  IN  IF messages = <<>> THEN NoResult
      ELSE [some |-> TRUE,
            total_input_tokens |-> tokens.input,
            total_output_tokens |-> tokens.output,
            total_cache_creation_tokens |-> tokens.cache_creation,
            total_cache_read_tokens |-> tokens.cache_read,
            total_tokens |-> Total(tokens),
            message_count |-> Len(messages),
            most_used_tools |-> tools]

\* DateTime::parse_from_rfc3339(&message.timestamp): a missing timestamp was
\* replaced by the current time, which parses.
TimestampParses(l) == l.timestamp = 0 \/ l.ts_ok

TimeOf(l, clock) == IF l.timestamp = 0 THEN UtcNow(clock) ELSE l.timestamp

\* timestamp.format("%Y-%m-%d"): the day an instant falls on.
TicksPerDay == 2
DayOf(t) == t \div TicksPerDay

\* The least element of a non-empty set of numbers.
Least(S) == CHOOSE x \in S : \A y \in S : x <= y

\* process_session_file_for_project_stats.  timestamps is sorted when it has
\* two elements or more; its first element is all the summary reads.
process_session_file_for_project_stats(f, clock) ==
  LET messages == SelectSeq(f.lines, try_from)
      timed == SelectSeq(messages, TimestampParses)
      tokens == TokensOf(timed)
      tools == ToolsOf(messages)
      times == {TimeOf(timed[i], clock) : i \in 1..Len(timed)}
  IN  [total_messages |-> Len(messages),
       token_distribution |-> tokens,
       tool_usage |-> tools,
       daily_messages |->
         [d \in {DayOf(t) : t \in times} |->
            Cardinality({i \in 1..Len(timed) : DayOf(TimeOf(timed[i], clock)) = d})],
       session_dates |-> {DayOf(t) : t \in times},
       has_timestamps |-> timed # <<>>,
       first_timestamp |-> IF timed = <<>> THEN 0 ELSE Least(times)]

\* get_project_stats_summary without a date window, from the statistics of
\* the files in enumeration order.
RECURSIVE Aggregate(_, _)
Aggregate(file_stats, acc) ==
  IF file_stats = <<>> THEN acc
  ELSE LET st == Head(file_stats) IN
    Aggregate(Tail(file_stats),
      [total_sessions |-> acc.total_sessions + 1,
       total_messages |-> acc.total_messages + st.total_messages,
       token_distribution |->
         AddTokens(acc.token_distribution, st.token_distribution),
       tool_usage |-> AddUsage(acc.tool_usage, st.tool_usage),
       daily_messages |->
         [d \in DOMAIN acc.daily_messages \cup DOMAIN st.daily_messages |->
            (IF d \in DOMAIN acc.daily_messages THEN acc.daily_messages[d] ELSE 0)
              + (IF d \in DOMAIN st.daily_messages THEN st.daily_messages[d] ELSE 0)],
       session_dates |->
         acc.session_dates \cup st.session_dates
           \cup (IF st.has_timestamps THEN {DayOf(st.first_timestamp)} ELSE {})])

project_stats_summary(fs, clock, order) ==
  LET file_stats == [i \in 1..Len(order) |->
                       process_session_file_for_project_stats(fs[order[i]], clock)]
      agg == Aggregate(file_stats,
               [total_sessions |-> 0, total_messages |-> 0,
                token_distribution |-> NoDistribution, tool_usage |-> NoToolUsage,
                daily_messages |-> <<>>, session_dates |-> {}])
  IN  [some |-> TRUE,
       total_sessions |-> agg.total_sessions,
       total_messages |-> agg.total_messages,
       token_distribution |-> agg.token_distribution,
       total_tokens |-> Total(agg.token_distribution),
       most_used_tools |-> agg.tool_usage,
       daily_stats |->
         [d \in DOMAIN agg.daily_messages |->
            [message_count |-> agg.daily_messages[d],
             session_count |-> Cardinality({x \in agg.session_dates : x = d})]]]

\* all_stats.sort_by(|a, b| b.total_tokens.cmp(&a.total_tokens)), stable.
RECURSIVE InsertStats(_, _)
InsertStats(sorted, x) ==
  IF sorted = <<>> THEN <<x>>
  ELSE IF Head(sorted).total_tokens < x.total_tokens THEN <<x>> \o sorted
  ELSE <<Head(sorted)>> \o InsertStats(Tail(sorted), x)

RECURSIVE SortStats(_, _)
SortStats(all_stats, sorted) ==
  IF all_stats = <<>> THEN sorted
  ELSE SortStats(Tail(all_stats), InsertStats(sorted, Head(all_stats)))

\* get_project_token_stats without a date window, with the default offset and
\* a limit that holds every session: the items of the page.
project_token_stats(fs, order) ==
  LET all == [i \in 1..Len(order) |-> extract_session_token_stats_sync(fs[order[i]])]
  IN  SortStats(SelectSeq(all, LAMBDA st : st.some), <<>>)

get_project_token_stats ==
  /\ \E order \in Orders(DOMAIN files) :
       stats' = [stats EXCEPT !.listed = TRUE, !.items = project_token_stats(files, order)]
  /\ UNCHANGED <<files, now, cache_file, out, menu, page, req, chain, counts, calls, userdata, probe, pager, scan>>

get_project_stats_summary ==
  /\ \E order \in Orders(DOMAIN files) :
       stats' = [stats EXCEPT !.summary = project_stats_summary(files, now, order)]
  /\ UNCHANGED <<files, now, cache_file, out, menu, page, req, chain, counts, calls, userdata, probe, pager, scan>>

get_session_token_stats(p) ==
  /\ stats' = [stats EXCEPT !.session =
                 [q \in DOMAIN stats.session \cup {p} |->
                    IF q = p THEN session_token_stats(files[p]) ELSE stats.session[q]]]
  /\ UNCHANGED <<files, now, cache_file, out, menu, page, req, chain, counts, calls, userdata, probe, pager, scan>>

NextStats ==
  \/ \E p \in ProjectPaths, l \in menu : ProjectAppend(p, l)
  \/ get_project_token_stats
  \/ get_project_stats_summary
  \/ \E p \in ProjectPaths : get_session_token_stats(p)

\* Records with a usage; one of them has a timestamp that is not RFC 3339.
TokenMenu ==
  {Plain("assistant", 1, 1, TokenUsage(1, 2, NoTokens, 1)),
   Plain("user", 1, 2, TokenUsage(2, NoTokens, 1, NoTokens)),
   StatsRec("assistant", 1, 2, FALSE, TokenUsage(1, 1, NoTokens, NoTokens),
            NoUsage, NoUsage, NoTokens, <<>>, "none")}

InitTokens ==
  /\ files = [p \in ProjectPaths |-> EmptyFile]
  /\ now = 0
  /\ cache_file = <<>>
  /\ out = NoOut
  /\ page = NoPage
  /\ req = NoReq
  /\ chain = NoChain
  /\ counts = NoCounts
  /\ calls = [i \in Calls |-> NoCall]
  /\ scan = NoScan
  /\ pager = NoPager
  /\ probe = NoProbe
  /\ userdata = NoMeta
  /\ stats = NoStats
  /\ menu = TokenMenu

SpecTokens == InitTokens /\ [][NextStats]_vars

\* Records whose usage can be read from more than one place.
UsageMenu ==
  {StatsRec("assistant", 1, 1, TRUE, TokenUsage(1, 1, NoTokens, NoTokens), NoUsage,
            TokenUsage(2, 2, 2, 2), 2, <<>>, "none"),
   StatsRec("assistant", 1, 1, TRUE, NoUsage, TokenUsage(1, NoTokens, NoTokens, 1),
            TokenUsage(NoTokens, 2, NoTokens, NoTokens), NoTokens, <<>>, "none"),
   StatsRec("assistant", 1, 1, TRUE, NoUsage, NoUsage,
            TokenUsage(NoTokens, NoTokens, 1, NoTokens), 2, <<>>, "none"),
   StatsRec("user", 1, 1, TRUE, NoUsage, NoUsage, NoUsage, 2, <<>>, "none")}

InitUsage ==
  /\ files = [p \in ProjectPaths |-> EmptyFile]
  /\ now = 0
  /\ cache_file = <<>>
  /\ out = NoOut
  /\ page = NoPage
  /\ req = NoReq
  /\ chain = NoChain
  /\ counts = NoCounts
  /\ calls = [i \in Calls |-> NoCall]
  /\ scan = NoScan
  /\ pager = NoPager
  /\ probe = NoProbe
  /\ userdata = NoMeta
  /\ stats = NoStats
  /\ menu = UsageMenu

SpecUsage == InitUsage /\ [][NextStats]_vars

\* Records that invoke tools: through a tool_use item of the content array,
\* through the toolUse field, and a record that invokes none.
ToolMenu ==
  {StatsRec("assistant", 1, 1, TRUE, TokenUsage(1, 1, NoTokens, NoTokens), NoUsage,
            NoUsage, NoTokens, <<"Read">>, "none"),
   StatsRec("assistant", 1, 1, TRUE, NoUsage, NoUsage, NoUsage, NoTokens, <<>>, "Bash"),
   Plain("user", 1, 1, NoUsage)}

InitTools ==
  /\ files = [p \in ProjectPaths |-> EmptyFile]
  /\ now = 0
  /\ cache_file = <<>>
  /\ out = NoOut
  /\ page = NoPage
  /\ req = NoReq
  /\ chain = NoChain
  /\ counts = NoCounts
  /\ calls = [i \in Calls |-> NoCall]
  /\ scan = NoScan
  /\ pager = NoPager
  /\ probe = NoProbe
  /\ userdata = NoMeta
  /\ stats = NoStats
  /\ menu = ToolMenu

SpecTools == InitTools /\ [][NextStats]_vars


-----------------------------------------------------------------------------
(* User metadata and presets: commands/metadata.rs, commands/settings.rs *)

OthersUnchanged ==
  UNCHANGED <<files, now, cache_file, out, menu, page, req, chain, counts, calls, stats, probe, pager, scan>>

\* The locked block of an update command: mutate the cached metadata, clone
\* it, release the lock.  The save follows in a blocking task.
Locked(w, kind, metadata) ==
  /\ userdata.w[w].pc = "idle"
  /\ userdata' = [userdata EXCEPT !.memory = metadata,
                          !.w[w] = [NoWriter EXCEPT !.pc = "create", !.kind = kind,
                                                    !.snap = metadata]]
  /\ OthersUnchanged

update_session_metadata(w, update) ==
  LET metadata == get_or_insert_with(userdata.memory)
  IN Locked(w, "session",
            IF update = 0 THEN [metadata EXCEPT !.sessions = 0]
                          ELSE [metadata EXCEPT !.sessions = update])

validate_absolute_path(absolute) == absolute

update_project_metadata(w, absolute, update) ==
  LET metadata == get_or_insert_with(userdata.memory)
  IN IF ~validate_absolute_path(absolute)
       THEN /\ userdata.w[w].pc = "idle"
            /\ userdata' = [userdata EXCEPT !.w[w] = [NoWriter EXCEPT !.pc = "done",
                                                             !.kind = "project",
                                                             !.err = TRUE]]
            /\ OthersUnchanged
       ELSE Locked(w, "project",
                   IF update = 0 THEN [metadata EXCEPT !.projects = 0]
                                 ELSE [metadata EXCEPT !.projects = update])

update_user_settings(w, settings) ==
  Locked(w, "settings", [get_or_insert_with(userdata.memory) EXCEPT !.settings = settings])

\* save_preset up to its blocking write: the preset to store is built.
save_preset(w, settings) ==
  /\ userdata.w[w].pc = "idle"
  /\ userdata' = [userdata EXCEPT !.w[w] = [NoWriter EXCEPT !.pc = "create", !.kind = "preset",
                                                    !.snap = [settings |-> settings]]]
  /\ OthersUnchanged

\* save_metadata_to_disk: File::create(user-data.json.tmp) opens the file of
\* that one name, truncating it when it exists.  save_preset: tempfile_in
\* makes a file with a name of its own.
File_create(w) ==
  LET shared == userdata.w[w].kind # "preset" /\ userdata.tmp # NoInode
      fd     == IF shared THEN userdata.tmp ELSE w
  IN /\ userdata.w[w].pc = "create"
     /\ userdata' = [userdata EXCEPT !.inodes[fd] = <<>>,
                             !.tmp = IF userdata.w[w].kind = "preset" THEN @ ELSE fd,
                             !.w[w].fd = fd, !.w[w].off = 0, !.w[w].pc = "write"]
     /\ OthersUnchanged

\* write_all, one block at the handle's offset; after the last block the
\* file is synced.
write_all(w) ==
  LET wr      == userdata.w[w]
      content == ContentOf(wr)
  IN /\ wr.pc = "write"
     /\ userdata' = [userdata EXCEPT !.inodes[wr.fd] = WriteAt(@, wr.off, content[wr.off + 1]),
                             !.w[w].off = wr.off + 1,
                             !.w[w].pc = IF wr.off + 1 = Len(content) THEN "rename" ELSE "write"]
     /\ OthersUnchanged

\* fs::rename(user-data.json.tmp, user-data.json), which fails when the temp
\* name is gone; for a preset the rename of the writer's own temp file.
rename(w) ==
  LET wr == userdata.w[w]
  IN /\ wr.pc = "rename"
     /\ userdata' = IF wr.kind = "preset"
                  THEN [userdata EXCEPT !.preset = wr.fd, !.w[w].pc = "done"]
                  ELSE IF userdata.tmp = NoInode
                    THEN [userdata EXCEPT !.w[w].pc = "done", !.w[w].err = TRUE]
                    ELSE [userdata EXCEPT !.path = userdata.tmp, !.tmp = NoInode,
                                      !.w[w].pc = "done"]
     /\ OthersUnchanged

NextMeta ==
  \/ \E w \in Writers, u \in Updates : update_session_metadata(w, u)
  \/ \E w \in Writers, a \in BOOLEAN, u \in Updates : update_project_metadata(w, a, u)
  \/ \E w \in Writers, s \in Updates : update_user_settings(w, s)
  \/ \E w \in Writers, s \in Updates : save_preset(w, s)
  \/ \E w \in Writers : File_create(w)
  \/ \E w \in Writers : write_all(w)
  \/ \E w \in Writers : rename(w)

\* No session file is written while the metadata commands run.
InitMeta == InitCommon /\ menu = {}

SpecMeta == InitMeta /\ [][NextMeta]_vars


-----------------------------------------------------------------------------
(* The path decoder: utils.rs *)

\* A path is a sequence of components, a component a sequence of words
\* joined by '-': <<<<"a">>, <<"b", "a">>>> is /a/b-a.
Words == {"a", "b"}

SeqsUpTo(S, n) == UNION {[1..k -> S] : k \in 1..n}

RECURSIVE Flatten(_)
\* The words of a path in order: the encoded name is '-' before every word,
\* the separators replaced by '-'.
Flatten(p) == IF p = <<>> THEN <<>> ELSE Head(p) \o Flatten(Tail(p))

\* The path with the given words whose separators stand after the words
\* numbered in cuts; every other join is a '-'.
PathOf(ws, cuts) ==
  LET starts == {0} \cup cuts
  IN [r \in 1..Cardinality(starts) |->
        LET s == CHOOSE t \in starts : Cardinality({u \in starts : u < t}) + 1 = r
            e == CHOOSE t \in cuts \cup {Len(ws)} :
                   t > s /\ \A u \in cuts \cup {Len(ws)} : u > s => t <= u
        IN SubSeq(ws, s + 1, e)]

ProjectDirs ==
  {PathOf(x[1], x[2]) :
     x \in UNION {{ws} \X SUBSET (1..(Len(ws) - 1)) : ws \in SeqsUpTo(Words, MaxWords)}}

\* A path and the directories above it.
Parents(p) == {SubSeq(p, 1, k) : k \in 1..Len(p)}

\* The path whose first k components are the first k words and whose last
\* component is the rest of the encoded name, hyphens included.
Split(encoded, k) ==
  [i \in 1..k |-> <<encoded[i]>>] \o
    (IF k < Len(encoded) THEN <<SubSeq(encoded, k + 1, Len(encoded))>> ELSE <<>>)

NoPath == [some |-> FALSE]
SomePath(p) == [some |-> TRUE, path |-> p]

\* decode_with_filesystem_check: the prefix grows by one word per hyphen; when
\* it is a directory, the prefix with the remaining name appended is probed;
\* at the end the path with every hyphen a separator is probed.
decode_with_filesystem_check(encoded, dirs) ==
  LET n    == Len(encoded)
      hits == {k \in 1..(n - 1) :
                 /\ SubSeq(Split(encoded, k), 1, k) \in dirs
                 /\ Split(encoded, k) \in dirs}
  IN IF n = 0 THEN NoPath
     ELSE IF hits # {} THEN SomePath(Split(encoded, CHOOSE k \in hits : \A j \in hits : k <= j))
     ELSE IF Split(encoded, n) \in dirs THEN SomePath(Split(encoded, n))
     ELSE NoPath

\* The fallback of decode_project_path: splitn(4, '-') of the encoded name.
HeuristicSplit(encoded) ==
  IF Len(encoded) >= 3 THEN Split(encoded, 2) ELSE Split(encoded, Len(encoded))

\* decode_project_path of a storage path: without the marker
\* ".claude/projects/" the storage path itself is returned.
decode_project_path(storage, dirs) ==
  IF ~storage.marker THEN [raw |-> TRUE, path |-> <<>>]
  ELSE LET probed == decode_with_filesystem_check(storage.encoded, dirs)
       IN IF probed.some THEN [raw |-> FALSE, path |-> probed.path]
          ELSE [raw |-> FALSE, path |-> HeuristicSplit(storage.encoded)]

\* A directory is made, with the directories above it.
mkdir(p) ==
  /\ probe.made < MaxDirs
  /\ ~probe.done
  /\ probe' = [probe EXCEPT !.dirs = @ \cup Parents(p), !.made = @ + 1]
  /\ UNCHANGED <<files, now, cache_file, out, menu, page, req, chain, counts, calls,
                 stats, userdata, pager, scan>>

\* decode_project_path is called for the storage directory of the existing
\* project p.
DecodeCall(p, marker) ==
  /\ p \in probe.dirs
  /\ probe' = [probe EXCEPT !.done = TRUE, !.target = p, !.marker = marker,
                            !.result = decode_project_path(
                                         [marker |-> marker, encoded |-> Flatten(p)],
                                         probe.dirs)]
  /\ UNCHANGED <<files, now, cache_file, out, menu, page, req, chain, counts, calls,
                 stats, userdata, pager, scan>>

NextDecode ==
  \/ \E p \in ProjectDirs : mkdir(p)
  \/ \E p \in ProjectDirs, marker \in BOOLEAN : DecodeCall(p, marker)

\* No session file is written while paths are decoded.
InitDecode == InitCommon /\ menu = {}

SpecDecode == InitDecode /\ [][NextDecode]_vars


-----------------------------------------------------------------------------
(* Claims about the loader *)

\* The session a returned list holds for a file, or NoSession.
SessionFor(sessions, p) ==
  IF \E i \in 1..Len(sessions) : sessions[i].file_path = p
    THEN sessions[CHOOSE i \in 1..Len(sessions) : sessions[i].file_path = p]
    ELSE NoSession

\* A timestamp read from a record (not the current time standing in for a
\* missing one).
Recorded(ts) == ts <= MaxTs

\* The lines appended to p between the previous load and the load just made.
AppendedSince(p) == SubSeq(files[p].lines, out.seen[p] + 1, Len(files[p].lines))

\* C2: K valid records appended to a file after an unfiltered load, then an
\* unfiltered reload: the count grows by K and last_message_time does not
\* decrease.
C2_AppendOnly ==
  [][\A p \in Paths :
       LET old == SessionFor(out.sessions, p)
           new == SessionFor(out'.sessions, p)
           added == AppendedSince(p)
       IN  (/\ load_project_sessions(FALSE)
            /\ out.valid /\ ~out.exclude /\ old.some
            /\ \A i \in 1..Len(added) : IsValid(added[i]))
           => /\ new.some
              /\ new.message_count = old.message_count + Len(added)
              /\ new.last_message_time >= old.last_message_time]_vars

\* The same, for the count alone.
C2_CountGrows ==
  [][\A p \in Paths :
       LET old == SessionFor(out.sessions, p)
           new == SessionFor(out'.sessions, p)
           added == AppendedSince(p)
       IN  (/\ load_project_sessions(FALSE)
            /\ out.valid /\ ~out.exclude /\ old.some
            /\ \A i \in 1..Len(added) : IsValid(added[i]))
           => /\ new.some
              /\ new.message_count = old.message_count + Len(added)]_vars

\* What a load returns on the same files, at the same time, when the cache
\* file has been deleted.
ColdSessions(fs, clock, exclude) ==
  LoadOutcome(fs, <<>>, clock, exclude, SetToSeq(DOMAIN fs)).sessions

SameTime(a, b) == (Recorded(a) /\ Recorded(b)) => a = b

SameSummary(a, b) ==
  /\ a.some = b.some
  /\ a.some =>
       /\ a.message_count = b.message_count
       /\ SameTime(a.first_message_time, b.first_message_time)
       /\ SameTime(a.last_message_time, b.last_message_time)
       /\ a.actual_session_id = b.actual_session_id
       /\ a.has_tool_use = b.has_tool_use
       /\ a.has_errors = b.has_errors
       /\ a.summary = b.summary

\* C3: the list a load returns with the persisted cache is the list a load
\* returns on the same files without the cache file.
C3_CachePureOptimization ==
  (out.valid /\ out.idle) =>
    \A p \in Paths :
      SameSummary(SessionFor(out.sessions, p),
                  SessionFor(ColdSessions(files, out.clock, out.exclude), p))

\* C5: a load that immediately follows a load, on the unchanged project,
\* takes the cached path for every file.
C5_SecondLoadAllCached ==
  [][((\E e \in BOOLEAN : load_project_sessions(e)) /\ out.valid /\ out.idle)
       => \A p \in Paths : out'.strategy[p] = "UseCached"]_vars


\* C1: for every file and every unfiltered load, whichever path served the
\* file, the reported message_count is the number of valid records the file
\* holds; a file without valid records has no session.
C1_CountIsValidRecords ==
  (out.valid /\ out.idle /\ ~out.exclude) =>
    \A p \in Paths :
      LET s == SessionFor(out.sessions, p) IN
        IF ValidCount(files[p].lines) = 0 THEN ~s.some
        ELSE s.some /\ s.message_count = ValidCount(files[p].lines)

\* C4: the load that follows a rewrite of a file neither resumes from the
\* stale offset nor serves the stale summary: it returns for the file what a
\* full parse of the new content yields.
C4_RewriteInvalidates ==
  [][\A p \in Paths :
       ((\E e \in BOOLEAN : load_project_sessions(e)) /\ p \in out.rewritten)
         => /\ out'.strategy[p] = "FullParse"
            /\ SameSummary(SessionFor(out'.sessions, p),
                           SessionFor(ColdSessions(files, now, out'.exclude), p))]_vars


-----------------------------------------------------------------------------
(* Claims about the pager and the counters *)

\* The lines of data a request selects: the valid ones, without the
\* sidechain ones when the request excludes them.
Selected(data, exclude) ==
  SelectSeq(Ascending(1..Len(data)),
            LAMBDA i : IsValid(data[i]) /\ ~(exclude /\ data[i].is_sidechain))

NoDuplicate(s) == \A i, j \in 1..Len(s) : s[i] = s[j] => i = j

\* s is a run of consecutive elements of t.
IsRunOf(s, t) ==
  \E k \in 0..Len(t) : k + Len(s) <= Len(t) /\ s = SubSeq(t, k + 1, k + Len(s))

LastN(t, n) == SubSeq(t, Len(t) - n + 1, Len(t))

\* C6: every page has next_offset = offset + number of messages, and the
\* pages a client gets by following next_offset on an unchanged file are the
\* selected records without a duplicate, and all of them once the client is
\* through.
C6_PagesPartition ==
  (chain.active /\ chain.clean) =>
    /\ chain.sums
    /\ NoDuplicate(chain.got)
    /\ (chain.done /\ chain.got # <<>>) =>
         \A p \in Paths : chain.got = Selected(files[p].lines, chain.exclude)

\* C7: the page at offset 0 without the sidechain filter holds exactly the
\* last N valid records of the file in file order, N = min(limit, total_count).
C7_NewestPage ==
  (page.valid /\ page.offset = 0 /\ ~page.exclude) =>
    \A p \in Paths :
      LET valid == Selected(Mmap(files[p], page.nlines), FALSE)
          N == Min(page.limit, page.total_count)
      IN  N <= Len(valid) /\ page.messages = LastN(valid, N)

\* C8: whatever the producer appends while a call of the pager runs, the page
\* returned is a run of consecutive selected records of the bytes the call
\* mapped: no hole, no duplicate, no reordering.
C8_PageContiguous ==
  page.valid =>
    \A p \in Paths :
      IsRunOf(page.messages, Selected(Mmap(files[p], page.nlines), page.exclude))

\* C8 witness: a page of two messages returned after the producer has
\* appended to the file the call had mapped.
C8_Witness ==
  /\ page.valid
  /\ Len(page.messages) >= 2
  /\ \E p \in Paths : page.nlines < Len(files[p].lines)

\* C10: the four operations count the same records of a file.
C10_SameCount ==
  \A p \in Paths :
    (/\ out.valid /\ out.idle /\ ~out.exclude
     /\ counts.count >= 0 /\ counts.total >= 0 /\ counts.loaded >= 0)
    => LET s == SessionFor(out.sessions, p)
           message_count == IF s.some THEN s.message_count ELSE 0
       IN  /\ counts.count = message_count
           /\ counts.total = message_count
           /\ counts.loaded = message_count

\* C9: when both calls have returned, the cache file holds exactly the bytes
\* one of the calls that saved it wrote.
C9_LastWriterWins ==
  ((\A i \in Calls : calls[i].pc = "done") /\ (\E i \in Calls : calls[i].save)) =>
    \E i \in Calls : calls[i].save /\ cache_file = calls[i].bytes


-----------------------------------------------------------------------------
(* Claims about the list a load returns *)

\* The list is ordered by last_message_time, latest first.
Descending(sessions) ==
  \A i, j \in 1..Len(sessions) :
    i < j => sessions[i].last_message_time >= sessions[j].last_message_time

\* C11: the list a load returns is ordered by last_message_time descending
\* and is the same whatever the order in which the directory walk enumerates
\* the files (ties are broken by the file path, not by the enumeration).
\* Sessions whose time is the current time of the parse are left aside: two
\* such times are equal only at the granularity of the clock of the model.
C11_OrderTotal ==
  [][\A e \in BOOLEAN :
       (/\ load_project_sessions(e)
        /\ \A i \in 1..Len(out'.sessions) : Recorded(out'.sessions[i].last_message_time))
       =>
         /\ Descending(out'.sessions)
         /\ \A order \in Orders(DOMAIN files) :
              LoadOutcome(files, cache_file, now, e, order).sessions = out'.sessions]_vars

\* The ordering by time alone.
C11_Descending == out.valid => Descending(out.sessions)


C13_FilterSubtracts ==
  [][load_project_sessions(TRUE) =>
       LET order == out'.order
           plain == LoadOutcome(files, cache_file, now, FALSE, order)
           written == load_cache(cache_file').entries
       IN  /\ cache_file' = plain.cache_file
           /\ \A p \in DOMAIN files :
                LET full == SessionFor(plain.sessions, p)
                    got == SessionFor(out'.sessions, p)
                    n == full.message_count - written[p].sidechain_count
                IN  IF full.some /\ n > 0
                      THEN got.some /\ got.message_count = n
                      ELSE ~got.some
           /\ LoadOutcome(files, cache_file', now, FALSE, order).sessions
                = plain.sessions]_vars

\* C13 witness: a filtered load has left out a session of sidechain records
\* only, which the cache file keeps, and has lowered the count of another.
C13_Witness ==
  /\ out.valid /\ out.idle /\ out.exclude
  /\ \E p, q \in DOMAIN files :
       /\ files[p].lines # <<>>
       /\ ~SessionFor(out.sessions, p).some
       /\ p \in DOMAIN load_cache(cache_file).entries
       /\ load_cache(cache_file).entries[p].session.some
       /\ SessionFor(out.sessions, q).some
       /\ SessionFor(out.sessions, q).message_count < Len(files[q].lines)

\* All the sessions of the project, each with its own summary: what step 5
\* collects when nothing is filtered.
ProjectSessions(fs, bytes, clock, order) ==
  LET cache == load_cache(bytes)
      strategies == Strategies(cache, fs, order)
  IN  ProcessResults(strategies, ParseResults(strategies, fs, clock), fs, FALSE,
                     [cache |-> cache, cache_updated |-> FALSE, sessions |-> <<>>]).sessions

\* The summaries the sessions of a list have for an id.
SummariesOf(sessions, id) ==
  {sessions[i].summary : i \in {j \in 1..Len(sessions) :
      sessions[j].actual_session_id = id /\ sessions[j].summary # NoText}}

Propagated(all, returned) ==
  \A i \in 1..Len(returned) :
    LET mapped == SummariesOf(all, returned[i].actual_session_id) IN
      mapped # {} => returned[i].summary # NoText

\* C14: in the list a load returns, with or without exclude_sidechain, every
\* session carries a summary whenever some session of the project with the
\* same actual_session_id has a non-empty one, whether that session is
\* returned or filtered out.
C14_SummaryFromAllSessions ==
  [][\A e \in BOOLEAN :
       load_project_sessions(e) =>
         Propagated(ProjectSessions(files, cache_file, now, out'.order), out'.sessions)]_vars

\* The same, for the loads without the filter.
C14_Unfiltered ==
  [][load_project_sessions(FALSE) =>
       Propagated(ProjectSessions(files, cache_file, now, out'.order), out'.sessions)]_vars

\* The contents load_cache rejects, derived from the cache file as it is: the
\* file missing or unreadable, the file cut short (it no longer parses), the
\* file of another version.
FaultyBytes(bytes) ==
  {<<>>}
    \cup {SubSeq(bytes, 1, n) : n \in 1..(Len(bytes) - 1)}
    \cup (IF bytes = <<>> THEN {}
          ELSE {[bytes EXCEPT ![1] = [tok |-> "head", version |-> CACHE_VERSION - 1]]})

\* C15: what a load returns does not depend on a fault of the cache file:
\* with the file missing, cut short or of another version, the load returns
\* for every file the session it returns with the cache file as it is (times
\* that are the current time of a parse left aside).
C15_FaultChangesNothing ==
  [][\A e \in BOOLEAN :
       load_project_sessions(e) =>
         \A bytes \in FaultyBytes(cache_file), p \in DOMAIN files :
           SameSummary(
             SessionFor(LoadOutcome(files, bytes, now, e, out'.order).sessions, p),
             SessionFor(out'.sessions, p))]_vars

\* A faulty cache file is an empty cache: every file is fully parsed and the
\* list is that of a load without the cache file.
C15_FaultIsEmptyCache ==
  [][\A e \in BOOLEAN :
       load_project_sessions(e) =>
         \A bytes \in FaultyBytes(cache_file) :
           LET o == LoadOutcome(files, bytes, now, e, out'.order) IN
             /\ \A p \in DOMAIN files : o.strategy[p] = "FullParse"
             /\ o.sessions = LoadOutcome(files, <<>>, now, e, out'.order).sessions
             /\ o.cache_updated]_vars

\* A file that is empty or holds nothing but undecodable lines and records of
\* the system-excluded types.
NothingToLoad(f) ==
  \A i \in 1..Len(f.lines) :
    ~f.lines[i].json \/ is_system_message_type(f.lines[i].message_type)

\* C16: a file that is empty or made only of undecodable lines and records
\* of system-excluded types contributes no session to the list a load returns
\* and no message to load_session_messages.
C16_NothingContributed ==
  (out.valid /\ out.idle) =>
    \A p \in DOMAIN files :
      NothingToLoad(files[p]) =>
        /\ ~SessionFor(out.sessions, p).some
        /\ load_session_messages(Mmap(files[p], Len(files[p].lines))) = <<>>

\* The same, for load_session_messages alone, and with the undecodable lines
\* of any file skipped: the messages are those of the decodable records.
C16_MessagesSkipUndecodable ==
  \A p \in DOMAIN files :
    LET data == Mmap(files[p], Len(files[p].lines)) IN
      /\ NothingToLoad(files[p]) => load_session_messages(data) = <<>>
      /\ \A i \in 1..Len(data) :
           (data[i].json /\ IsValid(data[i])) =>
             \E k \in 1..Len(load_session_messages(data)) : load_session_messages(data)[k] = i

\* A file of summary records only.
OnlySummaries(f) ==
  /\ f.lines # <<>>
  /\ \A i \in 1..Len(f.lines) : f.lines[i].json /\ f.lines[i].message_type = "summary"

\* C17: for a file that holds only summary records a load returns a session
\* with message_count 0 whose summary is the text of the first summary record.
C17_SummaryOnlyFile ==
  (out.valid /\ out.idle) =>
    \A p \in DOMAIN files :
      OnlySummaries(files[p]) =>
        LET s == SessionFor(out.sessions, p) IN
          /\ s.some
          /\ s.message_count = 0
          /\ s.summary = [t |-> 0, x |-> files[p].lines[1].text]

\* The timestamps of the valid records of a file.
ValidStamps(f) ==
  {f.lines[i].timestamp : i \in {j \in 1..Len(f.lines) :
      IsValid(f.lines[j]) /\ f.lines[j].timestamp # 0}}

\* C18: first_message_time is the least and last_message_time the greatest
\* timestamp of the valid records of the file, whatever their order in the
\* file and whichever way the file was parsed.
C18_MinMaxTimes ==
  (out.valid /\ out.idle) =>
    \A p \in DOMAIN files :
      LET s == SessionFor(out.sessions, p)
          stamps == ValidStamps(files[p])
      IN  (s.some /\ stamps # {}) =>
            /\ \A t \in stamps : s.first_message_time <= t /\ t <= s.last_message_time
            /\ s.first_message_time \in stamps
            /\ s.last_message_time \in stamps

\* The summary the records of a file call for: the text of the first summary
\* record, else the first genuine text of a valid user record, else none.
ExpectedSummary(f) ==
  LET summaries == {i \in 1..Len(f.lines) :
                      f.lines[i].json /\ f.lines[i].message_type = "summary"}
      texts == {i \in 1..Len(f.lines) :
                  /\ IsValid(f.lines[i])
                  /\ f.lines[i].message_type = "user"
                  /\ extract_user_text(f.lines[i]) # NoText}
      first(S) == CHOOSE i \in S : \A j \in S : i <= j
  IN  IF summaries # {} THEN [t |-> 0, x |-> f.lines[first(summaries)].text]
      ELSE IF texts # {} THEN extract_user_text(f.lines[first(texts)])
      ELSE NoText

\* C19: the summary of a session is the text of the first summary record of
\* its file, else the first genuine user text, else none, whichever way the
\* file was parsed.  (The project has one file: propagation leaves the
\* summary as it is.)
C19_SummaryPreference ==
  (out.valid /\ out.idle) =>
    \A p \in DOMAIN files :
      LET s == SessionFor(out.sessions, p) IN
        s.some => s.summary = ExpectedSummary(files[p])

\* The same, for the loads that parse the file fully.
C19_FullParse ==
  (out.valid /\ out.idle) =>
    \A p \in DOMAIN files :
      LET s == SessionFor(ColdSessions(files, out.clock, out.exclude), p) IN
        s.some => s.summary = ExpectedSummary(files[p])

\* The session ids of the valid records of a file, in file order.
ValidIds(f) ==
  SelectSeq(f.lines, LAMBDA l : IsValid(l) /\ l.session_id # 0)

\* C20: actual_session_id is the sessionId of the first valid record of the
\* file that carries one, wherever it stands, and "unknown-session" only when
\* no valid record carries one.
C20_FirstSessionId ==
  (out.valid /\ out.idle) =>
    \A p \in DOMAIN files :
      LET s == SessionFor(out.sessions, p)
          ids == ValidIds(files[p])
      IN  s.some =>
            s.actual_session_id =
              (IF ids = <<>> THEN UNKNOWN_SESSION ELSE ids[1].session_id)

\* The same, for the loads that parse the file fully.
C20_FullParse ==
  (out.valid /\ out.idle) =>
    \A p \in DOMAIN files :
      LET s == SessionFor(ColdSessions(files, out.clock, out.exclude), p)
          ids == ValidIds(files[p])
      IN  s.some =>
            s.actual_session_id =
              (IF ids = <<>> THEN UNKNOWN_SESSION ELSE ids[1].session_id)


-----------------------------------------------------------------------------
(* Claims about the statistics *)

RECURSIVE SumTotals(_)
SumTotals(items) ==
  IF items = <<>> THEN 0 ELSE Head(items).total_tokens + SumTotals(Tail(items))

\* C21: the total_tokens of the sessions project_token_stats lists add up
\* to the total_tokens of project_stats_summary for the same project, and
\* that total is the sum of the four counts of its token distribution.
C21_TokenRoundTrip ==
  (stats.listed /\ stats.summary.some) =>
    /\ SumTotals(stats.items) = stats.summary.total_tokens
    /\ stats.summary.total_tokens = Total(stats.summary.token_distribution)

\* The second half alone: the total is the sum of the distribution.
C21_TotalIsDistribution ==
  stats.summary.some =>
    stats.summary.total_tokens = Total(stats.summary.token_distribution)

\* The usage of a message taken from one place only, the first that is
\* present: message.usage, the usage of an object content,
\* toolUseResult.usage, toolUseResult.totalTokens.
FirstPresentUsage(message) ==
  LET empty == TokenUsage(NoTokens, NoTokens, NoTokens, NoTokens) IN
    IF message.usage.some THEN message.usage
    ELSE IF message.content_usage.some THEN Overlay(empty, message.content_usage)
    ELSE IF message.result_usage.some THEN Overlay(empty, message.result_usage)
    ELSE IF message.total_tokens # NoTokens
      THEN IF message.message_type = "assistant"
             THEN [empty EXCEPT !.output_tokens = message.total_tokens]
             ELSE [empty EXCEPT !.input_tokens = message.total_tokens]
    ELSE empty

\* The messages get_session_token_stats reads from a file.
LoadedMessages(f) ==
  LET data == Mmap(f, Len(f.lines))
      loaded == load_session_messages(data)
  IN  [k \in 1..Len(loaded) |-> data[loaded[k]]]

\* C22: the token counts session_token_stats reports for a file are the sums
\* of the usage of its messages, each usage taken from exactly one place, the
\* first present; no later place overrides or completes an earlier one.
C22_FirstSourceOnly ==
  \A p \in DOMAIN stats.session :
    LET st == stats.session[p]
        messages == LoadedMessages(files[p])
        expected == SumTokens([i \in 1..Len(messages) |->
                                 Tokens(FirstPresentUsage(messages[i]))])
    IN  st.some =>
          /\ st.total_input_tokens = expected.input
          /\ st.total_output_tokens = expected.output
          /\ st.total_cache_creation_tokens = expected.cache_creation
          /\ st.total_cache_read_tokens = expected.cache_read

\* The part of it that concerns message.usage: when a message has it,
\* nothing else is read.
C22_TopLevelWins ==
  \A p \in DOMAIN files :
    \A i \in 1..Len(files[p].lines) :
      files[p].lines[i].usage.some =>
        extract_token_usage(files[p].lines[i]) = files[p].lines[i].usage

\* C23: session_token_stats counts every tool invocation of the file once:
\* the usage_count of a tool is the number of tool_use items of that name in
\* the content arrays of the assistant messages plus the number of messages
\* whose toolUse field names it.
C23_ToolCountedOnce ==
  \A p \in DOMAIN stats.session :
    LET st == stats.session[p] IN
      st.some => st.most_used_tools = ToolsOf(LoadedMessages(files[p]))

\* The files of the project whose first message falls on day d: the first
\* message of a file is the earliest of its messages with a timestamp.
SessionsStartingOn(fs, clock, d) ==
  {p \in DOMAIN fs :
     LET st == process_session_file_for_project_stats(fs[p], clock) IN
       st.has_timestamps /\ DayOf(st.first_timestamp) = d}

\* C24: in project_stats_summary the session_count of a day is the number of
\* session files whose first message falls on that day.
C24_SessionCountPerDay ==
  stats.summary.some =>
    \A d \in DOMAIN stats.summary.daily_stats :
      stats.summary.daily_stats[d].session_count
        = Cardinality(SessionsStartingOn(files, now, d))

\* The message_count of a day, for comparison: the messages of the day, over
\* all files.
C24_MessageCountPerDay ==
  stats.summary.some =>
    \A d \in DOMAIN stats.summary.daily_stats :
      stats.summary.daily_stats[d].message_count
        = Cardinality({<<p, i>> \in (DOMAIN files) \X (1..MaxLines) :
            /\ i <= Len(files[p].lines)
            /\ try_from(files[p].lines[i])
            /\ TimestampParses(files[p].lines[i])
            /\ DayOf(TimeOf(files[p].lines[i], now)) = d})

\* C25: summary propagation is idempotent: applied to the list a load
\* returns, which is a propagated list, it changes nothing.
C25_PropagationIdempotent ==
  out.valid => PropagateSummaries(out.sessions) = out.sessions

\* C25 witness: a load has returned two sessions of one actual_session_id
\* with the same summary, which one of the two files does not hold: it was
\* propagated.
C25_Witness ==
  /\ out.valid /\ out.idle
  /\ \E i, j \in 1..Len(out.sessions) :
       /\ i # j
       /\ out.sessions[i].actual_session_id = out.sessions[j].actual_session_id
       /\ out.sessions[i].summary # NoText
       /\ out.sessions[i].summary = out.sessions[j].summary
       /\ ExpectedSummary(files[out.sessions[i].file_path]) = NoText


\* The unfiltered list holds for every file the number of its valid records.
CountsAreRight(sessions) ==
  \A p \in Paths :
    LET s == SessionFor(sessions, p) IN
      IF ValidCount(files[p].lines) = 0 THEN ~s.some
      ELSE s.some /\ s.message_count = ValidCount(files[p].lines)

\* C26: whatever was appended during earlier loads, an unfiltered load made
\* when the appends have stopped reports for each file the number of its
\* valid records.
C26_AppendsNotLost ==
  ( /\ scan.pc = "idle" /\ scan.done /\ scan.quiet
    /\ ~scan.exclude /\ files = scan.final )
  => CountsAreRight(scan.sessions)

\* C26, without the race: when no load was overtaken by an append, the
\* unfiltered load reports the number of valid records.
C26_NoAppendDuringLoads ==
  ( /\ scan.pc = "idle" /\ scan.done /\ ~scan.raced
    /\ ~scan.exclude /\ files = scan.final )
  => CountsAreRight(scan.sessions)

\* C27: a client that follows next_offset from offset 0 while has_more is
\* true gets a response with has_more false after finitely many requests.
C27_PagingTerminates == pager.active ~> pager.done

\* C27, the step the termination rests on: a response with has_more true
\* has a next_offset greater than the offset asked for.
C27_NextOffsetAdvances ==
  (pager.requested /\ pager.has_more) => pager.advanced

\* C27, pages that hold messages: a response with has_more true and at
\* least one message has a next_offset greater than the offset asked for.
C27_NonEmptyPageAdvances ==
  [][\A p \in Paths :
       LET r == load_session_messages_paginated(Mmap(files[p], Len(files[p].lines)),
                                                pager.offset, pager.limit, pager.exclude)
       IN (PagingNext /\ pager.path = p /\ r.has_more /\ r.messages # <<>>)
            => pager'.offset > pager.offset]_vars

-----------------------------------------------------------------------------
(* Claims about the user metadata and the presets *)

\* The writers that have a metadata snapshot to save, or have saved it.
MetadataWriters ==
  {w \in Writers : userdata.w[w].kind \in MetadataKinds /\ userdata.w[w].snap # NoMetadata}

\* C28: whoever reads user-data.json finds the complete content some write
\* was given, never a part of one or a mix.
C28_ReaderSeesComplete ==
  userdata.path # NoInode =>
    userdata.inodes[userdata.path] \in {to_string_pretty(userdata.w[w].snap) : w \in MetadataWriters}

\* C28, presets: the preset file holds the complete content of some
\* save_preset call.
C28_PresetComplete ==
  userdata.preset # NoInode =>
    userdata.inodes[userdata.preset] \in
      {SerializePreset(userdata.w[w].snap) : w \in {v \in Writers : userdata.w[v].kind = "preset"}}

\* C29: when every call has returned, without error, and every save wrote a
\* temp file of its own, user-data.json has the content of the metadata in
\* memory.
C29_DiskEqualsMemory ==
  ( /\ \A w \in Writers : userdata.w[w].pc \in {"idle", "done"} /\ ~userdata.w[w].err
    /\ MetadataWriters # {}
    /\ \A w \in MetadataWriters : userdata.w[w].fd = w )
  => /\ userdata.path # NoInode
     /\ userdata.inodes[userdata.path] = to_string_pretty(userdata.memory)

\* C29, one call: after a single update call has returned, user-data.json
\* has the content of the metadata in memory.
C29_SingleCall ==
  (\E w \in Writers : MetadataWriters = {w} /\ userdata.w[w].pc = "done")
  => /\ userdata.path # NoInode
     /\ userdata.inodes[userdata.path] = to_string_pretty(userdata.memory)

-----------------------------------------------------------------------------
(* Claims about the path decoder *)

\* The paths the probe may try for an encoded name, in the order it tries
\* them: k leading words as directories, the rest appended verbatim.
Candidates(encoded) == {Split(encoded, k) : k \in 1..Len(encoded)}

\* C30: for an existing project path, decode_project_path of the storage
\* path that holds its encoding returns a path that exists.
C30_ReturnsExisting ==
  (probe.done /\ probe.marker) => probe.result.path \in probe.dirs

\* C30, the probe itself: when one of the paths the probe tries exists, the
\* result is the first of them that exists, and so the target when the
\* target is the only one.
C30_FirstExistingCandidate ==
  LET encoded  == Flatten(probe.target)
      existing == {k \in 1..Len(encoded) : Split(encoded, k) \in probe.dirs}
  IN (probe.done /\ probe.marker /\ existing # {}) =>
       /\ probe.result.path = Split(encoded, CHOOSE k \in existing : \A j \in existing : k <= j)
       /\ (Candidates(encoded) \cap probe.dirs = {probe.target}
             => probe.result.path = probe.target)



====
